---- MODULE Spec2Model ----
(***************************************************************************)
(* Model of nortel-voiceware-decoder.c: the segment walker of main, the    *)
(* dispatcher handle_message_iteration, process_message and its uPD7759    *)
(* ADPCM command interpreter, and decode_nibble.                           *)
(*                                                                         *)
(* The ROM image is held sparsely: the bytes at the start of each segment  *)
(* are explicit, every other byte below rom_size reads as 0.  The          *)
(* segment size, the header layout and the byte values are the program's.  *)
(* Memory allocation (realloc, malloc) is taken to succeed, and the file   *)
(* sinks are recorded as calls, not as files; of write_wav_file the sizes  *)
(* it computes and the numbers of bytes it writes are modelled.            *)
(***************************************************************************)
EXTENDS Integers, Sequences, FiniteSets, TLC

\* ------------------------------------------------------------ constants

ROM_SEGMENT_SIZE == 131072

MODE_ADPCM == 0

MODE_PCM == 64

EXIT_SUCCESS == 0

EXIT_FAILURE == 1

\* char comment_buffer[256], line 1192.
comment_buffer_size == 256

ROM_MAGIC == <<90, 165, 105, 85>>

\* step_table[state][nibble], rows and columns 0-based in the source.
step_table ==
  << << 0, 0, 1, 2, 3, 5, 7, 10, 0, 0, -1, -2, -3, -5, -7, -10 >>,
     << 0, 1, 2, 3, 4, 6, 8, 13, 0, -1, -2, -3, -4, -6, -8, -13 >>,
     << 0, 1, 2, 4, 5, 7, 10, 15, 0, -1, -2, -4, -5, -7, -10, -15 >>,
     << 0, 1, 3, 4, 6, 9, 13, 19, 0, -1, -3, -4, -6, -9, -13, -19 >>,
     << 0, 2, 3, 5, 8, 11, 15, 23, 0, -2, -3, -5, -8, -11, -15, -23 >>,
     << 0, 2, 4, 7, 10, 14, 19, 29, 0, -2, -4, -7, -10, -14, -19, -29 >>,
     << 0, 3, 5, 8, 12, 16, 22, 33, 0, -3, -5, -8, -12, -16, -22, -33 >>,
     << 1, 4, 7, 10, 15, 20, 29, 43, -1, -4, -7, -10, -15, -20, -29, -43 >>,
     << 1, 4, 8, 13, 18, 25, 35, 53, -1, -4, -8, -13, -18, -25, -35, -53 >>,
     << 1, 6, 10, 16, 22, 31, 43, 64, -1, -6, -10, -16, -22, -31, -43, -64 >>,
     << 2, 7, 12, 19, 27, 37, 51, 76, -2, -7, -12, -19, -27, -37, -51, -76 >>,
     << 2, 9, 16, 24, 34, 46, 64, 96, -2, -9, -16, -24, -34, -46, -64, -96 >>,
     << 3, 11, 19, 29, 41, 57, 79, 117, -3, -11, -19, -29, -41, -57, -79, -117 >>,
     << 4, 13, 24, 36, 50, 69, 96, 143, -4, -13, -24, -36, -50, -69, -96, -143 >>,
     << 4, 16, 29, 44, 62, 85, 118, 175, -4, -16, -29, -44, -62, -85, -118, -175 >>,
     << 6, 20, 36, 54, 76, 104, 144, 214, -6, -20, -36, -54, -76, -104, -144, -214 >> >>

\* state_table with +1 for -1 at nibble 1.
state_table_NibbleOneUp == << -1, 1, 0, 0, 1, 2, 2, 3, -1, -1, 0, 0, 1, 2, 2, 3 >>

state_table == << -1, -1, 0, 0, 1, 2, 2, 3, -1, -1, 0, 0, 1, 2, 2, 3 >>

\* --------------------------------------------------------------- bounds

\* Number of segments a ROM of the walker family may have.
MaxSegs == 2

\* Largest target index given with -i.
MaxTarget == 3

\* Longest explicit command stream of the decoder family.
MaxPayloadLen == 3

\* Bytes of fill that follow a command stream in its padded variant.
PadLen == 2

\* Lines of a mapping file.
MaxMapLines == 2

\* ------------------------------------------------------------- helpers

Min(a, b) == IF a < b THEN a ELSE b

\* n samples (or bytes) of value 0.
Zeros(n) == [ j \in 1..n |-> 0 ]

\* (int16_t) conversion of an int value on a two's complement build.
ToInt16(x) ==
  LET m == x % 65536 IN IF m >= 32768 THEN m - 65536 ELSE m

\* ------------------------------------------------------------ variables

VARIABLES
  rom,                          \* rom_data / rom_size: [size, segs]
  list_mode, quiet_mode,        \* -l, -q
  target_message_idx,           \* -i, -1 when absent
  map_file,                     \* -m and the file it names: [given, opens, lines]
  line_num,                     \* lines of the mapping file read
  mapping_table,                \* the entries mappings[0..count-1]
  added,                        \* the entries passed to add_mapping, in order
  pc,                           \* position in main / process_message
  segment_start, segment_index_0_based,
  absolute_msg_idx_counter, target_found_and_processed, exit_code,
  message_count_in_segment, offset_table, msg_idx_in_seg,
  current_pos, adpcm_state, pcm_buffer, decoding_ok, end_of_message,
  nibble_count, repeat_count,
  current_repeat_nibble_start, current_repeat_nibble_count,
  handled,                      \* records passed to handle_message_iteration
  outcomes,                     \* one entry per process_message call that returned
  listing,                      \* listing lines printed
  stop,                         \* why and where the segment loop was left
  lastCmd,                      \* the command the decoder read last
  plays,                        \* completed plays of the block of lastCmd
  target_not_found,             \* the "not found" error was reported
  reads,                        \* the ranges of rom_data read so far
  wav                           \* the last call of write_wav_file

mainVars == << segment_start, segment_index_0_based, absolute_msg_idx_counter,
               target_found_and_processed, exit_code,
               message_count_in_segment, offset_table, msg_idx_in_seg >>

decVars == << current_pos, adpcm_state, pcm_buffer, decoding_ok, end_of_message,
              nibble_count, repeat_count,
              current_repeat_nibble_start, current_repeat_nibble_count >>

argVars == << rom, list_mode, quiet_mode, target_message_idx, map_file >>

\* What the segment loop reads and does not change.
inputVars == << argVars, line_num, mapping_table, added >>

histVars == << handled, outcomes, listing, stop, lastCmd, plays, target_not_found >>

vars == << inputVars, pc, mainVars, decVars, histVars, reads, wav >>

\* No call of write_wav_file yet.
NoWav == [ called |-> FALSE ]

\* rom_data[a], for a < rom_size.
RomAt(a) ==
  LET s == a \div ROM_SEGMENT_SIZE
      o == a % ROM_SEGMENT_SIZE
  IN IF s < Len(rom.segs) /\ o < Len(rom.segs[s + 1])
       THEN rom.segs[s + 1][o + 1]
       ELSE 0

rom_size == rom.size

read_u16be(a) == RomAt(a) * 256 + RomAt(a + 1)

\* ------------------------------------------------------- input families

BE16(w) == << w \div 256, w % 256 >>

RECURSIVE TableBytes(_)
TableBytes(t) == IF t = <<>> THEN <<>> ELSE BE16(Head(t)) \o TableBytes(Tail(t))

\* The leading bytes of a segment: header, offset table, then `body` at byte
\* offset bodyAt (bodyAt is at or past the end of the table).
SegImage(last, magic, table, bodyAt, body) ==
  LET hdr == <<last>> \o magic \o TableBytes(table)
  IN hdr \o Zeros(bodyAt - Len(hdr)) \o body

\* Walker family: message bodies at byte 10 (word 5) and byte 12 (word 6);
\* mode bytes 0x00 (ADPCM), 0x40 (PCM) and 0x07 (unknown).
WalkBodies == { <<0, 1, 0, 0>>, <<64, 1, 0, 0>>, <<0, 0, 64, 5>>, <<7, 0, 0, 1>> }

\* Offset tables in words: ordered, reversed, equal, and pointing at the last
\* word of the segment.
WalkTables == { <<5>>, <<6>>, <<65535>>, <<5, 6>>, <<6, 5>>, <<5, 65535>>, <<5, 5>> }

WalkSegs ==
  { SegImage(Len(t) - 1, ROM_MAGIC, t, 10, b) : t \in WalkTables, b \in WalkBodies }
    \cup { <<255, 255, 255, 255, 255>>, <<0, 90, 165, 105, 0>> }

FirstSegs ==
  { SegImage(0, ROM_MAGIC, <<5>>, 10, <<0, 1, 0, 0>>),
    SegImage(1, ROM_MAGIC, <<5, 6>>, 10, <<64, 1, 0, 0>>) }

\* Bytes of the last segment that the file holds.
TailSizes == { 3, 6, 8, 11, 12, 13, 14, ROM_SEGMENT_SIZE }

WalkRoms ==
  { [ size |-> (n - 1) * ROM_SEGMENT_SIZE + t, segs |-> f \o <<w>> ] :
      <<n, t, f, w>> \in
        { <<n, t, f, w>> \in (1..MaxSegs) \X TailSizes
                               \X (UNION { [1..k -> FirstSegs] : k \in 0..(MaxSegs - 1) })
                               \X WalkSegs :
            Len(f) = n - 1 } }

WalkModes ==
  { [ list |-> FALSE, quiet |-> FALSE, target |-> t ] : t \in -1..MaxTarget }
    \cup { [ list |-> TRUE, quiet |-> q, target |-> -1 ] : q \in BOOLEAN }

\* Decoder family: one segment, one ADPCM message at byte 8, every command
\* stream over DecBytes up to MaxPayloadLen, the file ending with the stream
\* or PadLen bytes of 0 later.
DecBytes == { 0, 1, 2, 17, 63, 64, 128, 192, 200, 208 }

DecPayloads == UNION { [1..n -> DecBytes] : n \in 1..MaxPayloadLen }

DecRoms ==
  { [ size |-> 9 + Len(p) + d,
      segs |-> << SegImage(0, ROM_MAGIC, <<4>>, 8, <<MODE_ADPCM>> \o p) >> ] :
      p \in DecPayloads, d \in {0, PadLen} }

\* Full-segment family: short, long and repeated blocks with all their data
\* bytes present.
FullPayloads ==
  { <<64>>, <<208, 3, 18, 52>>, <<63, 248, 0, 112>>, <<128, 0, 64, 63>>,
    <<128, 2, 63, 33, 0>>, <<128, 6, 119, 119, 119, 128, 0>> }

FullRoms ==
  { [ size |-> ROM_SEGMENT_SIZE,
      segs |-> << SegImage(0, ROM_MAGIC, <<4>>, 8, <<MODE_ADPCM>> \o p) >> ] :
      p \in FullPayloads }

\* Pair family: two ADPCM messages in one full segment, at bytes 10 and 26,
\* whose command streams differ in one byte: a repeat command with R = 0 in
\* the first, the long-block command 0x80 in the second.  The command has
\* the operand n and follows a prefix that leaves the decoder in its initial
\* or in another state.
PairPrefixes == { <<>>, <<128, 1, 63>> }

PairOperands == { 0, 2, 3 }

PairTails == { <<18, 52, 0>>, <<127, 128, 1, 0>> }

PairRepeatOps == { 192, 199 }

PairStream(op, pre, n, tail) == <<MODE_ADPCM>> \o pre \o << op, n >> \o tail

PairRoms ==
  { [ size |-> ROM_SEGMENT_SIZE,
      segs |-> << SegImage(1, ROM_MAGIC, <<5, 13>>, 10,
                           PairStream(op, pre, n, tail)
                             \o Zeros(16 - Len(PairStream(op, pre, n, tail)))
                             \o PairStream(128, pre, n, tail)) >> ] :
      op \in PairRepeatOps, pre \in PairPrefixes, n \in PairOperands,
      tail \in PairTails }

DecodeAll == [ list |-> FALSE, quiet |-> FALSE, target |-> -1 ]

ListAll == [ list |-> TRUE, quiet |-> FALSE, target |-> -1 ]

\* Map family: lines of a mapping file as fgets returns them.  Data lines
\* for the keys (0,0), (0,1) and (1,0), with and without a comment, with
\* white space to trim; a comment line and a blank line; lines with one tab
\* only, with an index that is no number, a negative index, an empty index.
MapLines ==
  { << "0", "\t", "0", "\t", "a", "\n" >>,
    << "0", "\t", "0", "\t", "b", " ", "\t", "#", " ", "h", "i", " ", "\n" >>,
    << "0", "\t", "1", "\t", "c", "\t", "(", "P", "C", "M", ")", "\n" >>,
    << " ", "0", "\t", "1", "\t", "d", "\t", "\n" >>,
    << "1", "\t", "0", "\t", "e", "\t", "x", "\n" >>,
    << "#", " ", "n", "\n" >>,
    << "\n" >>,
    << "0", "\t", "0", " ", "a", "\n" >>,
    << "x", "\t", "0", "\t", "a", "\n" >>,
    << "0", "\t", "-", "1", "\t", "a", "\n" >>,
    << "0", "\t", "\t", "a", "\n" >> }

MapFiles == UNION { [1..n -> MapLines] : n \in 0..MaxMapLines }

\* No -m option.
NoMap == [ given |-> FALSE, opens |-> FALSE, lines |-> <<>> ]

\* A data line for the key (0,1) whose comment has one character less than
\* comment_buffer has bytes.
LongCommentLine ==
  << "0", "\t", "1", "\t", "c", "\t" >>
    \o [ j \in 1..(comment_buffer_size - 1) |-> "x" ] \o << "\n" >>

MapInputs ==
  { [ given |-> TRUE, opens |-> TRUE, lines |-> f ] :
      f \in MapFiles \cup { << LongCommentLine >> } }
    \cup { [ given |-> TRUE, opens |-> FALSE, lines |-> <<>> ] }

\* The ROMs read with a mapping file: one segment, an ADPCM message at byte
\* 10 and a PCM message at byte 12.
MapRoms ==
  { [ size |-> n,
      segs |-> << SegImage(1, ROM_MAGIC, <<5, 6>>, 10, <<0, 0, 64, 5>>) >> ] :
      n \in { 14, ROM_SEGMENT_SIZE } }

Inputs ==
  (WalkRoms \X WalkModes \X {NoMap})
    \cup ((DecRoms \cup FullRoms \cup PairRoms) \X {DecodeAll} \X {NoMap})
    \cup (MapRoms \X {DecodeAll, ListAll} \X MapInputs)

\* The state main is in when it calls load_mapping_data (lines 1491-1535).
Init ==
  /\ \E in \in Inputs :
       /\ rom = in[1]
       /\ list_mode = in[2].list
       /\ quiet_mode = in[2].quiet
       /\ target_message_idx = in[2].target
       /\ map_file = in[3]
  /\ line_num = 0
  /\ mapping_table = <<>>
  /\ added = <<>>
  /\ pc = "load_map"
  /\ segment_start = 0
  /\ segment_index_0_based = 0
  /\ absolute_msg_idx_counter = 0
  /\ target_found_and_processed = FALSE
  /\ exit_code = EXIT_SUCCESS
  /\ message_count_in_segment = 0
  /\ offset_table = <<>>
  /\ msg_idx_in_seg = 0
  /\ current_pos = 0
  /\ adpcm_state = [ current_sample |-> 0, adpcm_state |-> 0 ]
  /\ pcm_buffer = <<>>
  /\ decoding_ok = TRUE
  /\ end_of_message = FALSE
  /\ nibble_count = 0
  /\ repeat_count = 0
  /\ current_repeat_nibble_start = 0
  /\ current_repeat_nibble_count = 0
  /\ handled = <<>>
  /\ outcomes = <<>>
  /\ listing = <<>>
  /\ stop = [ reason |-> "none", seg |-> -1 ]
  /\ lastCmd = [ op |-> -1, n |-> -1, base |-> 0, pos |-> 0 ]
  /\ plays = 0
  /\ target_not_found = FALSE
  /\ reads = {}
  /\ wav = NoWav

\* ------------------------------------------------------- the mapping file

\* A C string is the sequence of its characters; NULL is no such sequence.
NULL == << "NULL" >>

\* isspace() in the "C" locale.
isspace(c) == c \in { " ", "\t", "\n", "\r", "\f" }

isdigit(c) == c \in { "0", "1", "2", "3", "4", "5", "6", "7", "8", "9" }

MinOf(S) == CHOOSE x \in S : \A y \in S : x <= y

MaxOf(S) == CHOOSE x \in S : \A y \in S : x >= y

\* The string from its character i on.
StrFrom(str, i) == SubSeq(str, i, Len(str))

\* The index of the first character at or after i that is not white space,
\* or that of the terminating NUL (Len + 1).
SkipSpaces(str, i) ==
  MinOf({ j \in i..(Len(str) + 1) : j = Len(str) + 1 \/ ~isspace(str[j]) })

\* The string without its trailing white space (the loops of lines 493-495,
\* 500-503 and 515-517).
TrimRight(str) ==
  SubSeq(str, 1, MaxOf({ j \in 0..Len(str) : j = 0 \/ ~isspace(str[j]) }))

\* strchr(str + i - 1, ch): the index of the first ch at or after i, 0 for NULL.
strchr(str, i, ch) ==
  LET at == { j \in i..Len(str) : str[j] = ch }
  IN IF at = {} THEN 0 ELSE MinOf(at)

\* strstr(str, sub) != NULL.
strstr(str, sub) ==
  \E j \in 1..(Len(str) - Len(sub) + 1) : SubSeq(str, j, j + Len(sub) - 1) = sub

\* The value of a string of decimal digits.
RECURSIVE DigitsValue(_)
DigitsValue(d) ==
  IF d = <<>> THEN 0
  ELSE 10 * DigitsValue(SubSeq(d, 1, Len(d) - 1))
         + (CHOOSE v \in 0..9 :
              << "0", "1", "2", "3", "4", "5", "6", "7", "8", "9" >>[v + 1] = d[Len(d)])

\* strtol(nptr, &endptr, 10) for values inside long: white space, an optional
\* sign, digits.  endptr is an index into nptr, Len + 1 for the terminating
\* NUL; without a digit nothing is converted: the value is 0 and endptr is
\* nptr itself.
strtol(nptr) ==
  LET sign_at == SkipSpaces(nptr, 1)
      signed == sign_at <= Len(nptr) /\ nptr[sign_at] \in { "+", "-" }
      first == IF signed THEN sign_at + 1 ELSE sign_at
      last == MinOf({ j \in first..(Len(nptr) + 1) :
                        j = Len(nptr) + 1 \/ ~isdigit(nptr[j]) })
      magnitude == DigitsValue(SubSeq(nptr, first, last - 1))
  IN IF last = first
       THEN [ value |-> 0, endptr |-> 1 ]
       ELSE [ value |-> IF signed /\ nptr[sign_at] = "-" THEN 0 - magnitude
                                                       ELSE magnitude,
              endptr |-> last ]

\* Lines 312-335.
clean_comment(comment) ==
  LET first == SkipSpaces(comment, 1)
      start_of_text == IF first <= Len(comment) /\ comment[first] = "#"
                         THEN SkipSpaces(comment, first + 1) ELSE first
  IN StrFrom(comment, start_of_text)

\* Lines 448-530: what load_mappings makes of one line read by fgets.
ParseMapLine(line) ==
  LET trimmed_line == StrFrom(line, SkipSpaces(line, 1))
      tab1 == strchr(trimmed_line, 1, "\t")
      tab2 == IF tab1 # 0 THEN strchr(trimmed_line, tab1 + 1, "\t") ELSE 0
      tab3 == IF tab2 # 0 THEN strchr(trimmed_line, tab2 + 1, "\t") ELSE 0
      seg == strtol(SubSeq(trimmed_line, 1, tab1 - 1))
      seg_end == tab1
      msg == strtol(SubSeq(trimmed_line, tab1 + 1, tab2 - 1))
      msg_end == tab2 - tab1
      filename == IF tab3 # 0
                    THEN TrimRight(SubSeq(trimmed_line, tab2 + 1, tab3 - 1))
                    ELSE TrimRight(StrFrom(trimmed_line, tab2 + 1))
      comment_start == IF tab3 # 0 THEN StrFrom(trimmed_line, tab3 + 1) ELSE <<>>
      comment == IF tab3 # 0 /\ comment_start # <<>>
                   THEN clean_comment(TrimRight(comment_start)) ELSE NULL
  IN IF trimmed_line = <<>> \/ trimmed_line[1] = "#"
       THEN [ kind |-> "skip" ]
     ELSE IF tab1 = 0 \/ tab2 = 0
       THEN [ kind |-> "missing_tabs" ]
     ELSE IF seg.endptr # seg_end \/ msg.endptr # msg_end
               \/ seg.value < 0 \/ msg.value < 0
       THEN [ kind |-> "invalid_index" ]
     ELSE [ kind |-> "entry",
            entry |-> [ segment_index |-> seg.value,
                        message_index_in_seg |-> msg.value,
                        output_filename_base |-> filename,
                        comment |-> comment ] ]

\* add_mapping appending without the search for the key.
add_mapping_AlwaysAppends(table, entry) == Append(table, entry)

\* Lines 359-396, the allocation succeeding: the table after the call.
add_mapping(table, entry) ==
  LET same == { i \in 1..Len(table) :
                  /\ table[i].segment_index = entry.segment_index
                  /\ table[i].message_index_in_seg = entry.message_index_in_seg }
  IN IF same # {} THEN [ table EXCEPT ![MinOf(same)] = entry ]
                  ELSE Append(table, entry)

\* Lines 554-568: the index of the entry found, 0 for NULL.
find_mapping(table, segment_index, message_index_in_seg) ==
  LET same == { i \in 1..Len(table) :
                  /\ table[i].segment_index = segment_index
                  /\ table[i].message_index_in_seg = message_index_in_seg }
  IN IF same = {} THEN 0 ELSE MinOf(same)

\* Lines 403-417.
free_mapping_table(table) == <<>>

\* Lines 1535-1538 and 1641-1649: load_mapping_data failed; main sets the
\* failure status and goes to cleanup.
MapLoadFails ==
  /\ mapping_table' = free_mapping_table(mapping_table)
  /\ exit_code' = EXIT_FAILURE
  /\ stop' = [ reason |-> "map", seg |-> -1 ]
  /\ pc' = "done"

\* Lines 1440-1449: no mapping file was named.
NoMappingFile ==
  /\ pc = "load_map"
  /\ ~map_file.given
  /\ pc' = "seg_loop"
  /\ UNCHANGED << inputVars, mainVars, decVars, histVars >>
  /\ UNCHANGED reads
  /\ UNCHANGED wav

\* Lines 434-438: the mapping file cannot be opened.
MapOpenFails ==
  /\ pc = "load_map"
  /\ map_file.given
  /\ ~map_file.opens
  /\ MapLoadFails
  /\ UNCHANGED << argVars, line_num, added, segment_start, segment_index_0_based,
                  absolute_msg_idx_counter, target_found_and_processed,
                  message_count_in_segment, offset_table, msg_idx_in_seg, decVars,
                  handled, outcomes, listing, lastCmd, plays, target_not_found >>
  /\ UNCHANGED reads
  /\ UNCHANGED wav

\* fgets returned the next line of the mapping file (line 440).
MapLineRead ==
  /\ pc = "load_map"
  /\ map_file.given
  /\ map_file.opens
  /\ line_num < Len(map_file.lines)
  /\ line_num' = line_num + 1

\* Lines 455-456: a blank line or a comment line.
MapLineSkipped ==
  /\ MapLineRead
  /\ ParseMapLine(map_file.lines[line_num + 1]).kind = "skip"
  /\ UNCHANGED << argVars, mapping_table, added, pc, mainVars, decVars, histVars >>
  /\ UNCHANGED reads
  /\ UNCHANGED wav

\* Lines 463-467, 476-480 and 539-543: a line without two tabs or with an
\* index that is refused; the table is freed and the load fails.
MapLineMalformed ==
  /\ MapLineRead
  /\ ParseMapLine(map_file.lines[line_num + 1]).kind
       \in { "missing_tabs", "invalid_index" }
  /\ MapLoadFails
  /\ UNCHANGED << argVars, added, segment_start, segment_index_0_based,
                  absolute_msg_idx_counter, target_found_and_processed,
                  message_count_in_segment, offset_table, msg_idx_in_seg, decVars,
                  handled, outcomes, listing, lastCmd, plays, target_not_found >>
  /\ UNCHANGED reads
  /\ UNCHANGED wav

\* Lines 482-536: a data line; its entry is added to the table.
MapLineAdded ==
  /\ MapLineRead
  /\ LET parsed == ParseMapLine(map_file.lines[line_num + 1])
     IN /\ parsed.kind = "entry"
        /\ mapping_table' = add_mapping(mapping_table, parsed.entry)
        /\ added' = Append(added, parsed.entry)
  /\ UNCHANGED << argVars, pc, mainVars, decVars, histVars >>
  /\ UNCHANGED reads
  /\ UNCHANGED wav

\* Lines 440 and 539-543, 1447-1449: the end of the file; the load succeeded.
MapLoaded ==
  /\ pc = "load_map"
  /\ map_file.given
  /\ map_file.opens
  /\ ~(line_num < Len(map_file.lines))
  /\ pc' = "seg_loop"
  /\ UNCHANGED << inputVars, mainVars, decVars, histVars >>
  /\ UNCHANGED reads
  /\ UNCHANGED wav

\* ------------------------------------------------------ main: the walker

\* HeaderTooShort asking for one byte only.
HeaderTooShort_OneByte(start, size) == start + 1 > size

\* Line 1563: fewer than 5 bytes remain at the segment start.
HeaderTooShort(start, size) == start + 5 > size

\* Line 1573: memcmp(rom_data + segment_start + 1, ROM_MAGIC, 4) == 0.
MagicOk(start) == \A j \in 1..4 : RomAt(start + j) = ROM_MAGIC[j]

\* Lines 1564-1569: the exit code after a truncated header in segment seg.
HeaderShortExit(seg, code) == IF seg > 0 THEN code ELSE EXIT_FAILURE

\* BadMagicExit with the segment test lost: a magic mismatch is always fatal.
BadMagicExit_AlwaysFatal(seg, code) == EXIT_FAILURE

\* Lines 1574-1579: the exit code after a magic mismatch in segment seg.
BadMagicExit(seg, code) == IF seg = 0 THEN EXIT_FAILURE ELSE code

\* Line 1583.
MessageCount(last_message_index) == last_message_index + 1

\* OffsetTableOverrun without the comparison with the ROM size.
OffsetTableOverrun_SegmentOnly(start, count, size) ==
  start + 5 + count * 2 > start + ROM_SEGMENT_SIZE

\* Lines 1587-1590: the offset table overruns the ROM or the segment.
OffsetTableOverrun(start, count, size) ==
  LET offset_table_start == start + 5
      offset_table_size == count * 2
  IN \/ offset_table_start + offset_table_size > size
     \/ offset_table_start + offset_table_size > start + ROM_SEGMENT_SIZE

\* TableOverrunExit treating the overrun like a magic mismatch: fatal in
\* segment 0 only.
TableOverrunExit_SoftEnd(seg, code) == IF seg = 0 THEN EXIT_FAILURE ELSE code

\* Line 1593: the exit code after an offset table overrun in segment seg.
TableOverrunExit(seg, code) == EXIT_FAILURE

\* Line 1612: the absolute index main passes for message k of the segment.
AbsoluteIndex(counter, k) == counter + k

\* CounterAfterSegment adding last_message_index instead of the count.
CounterAfterSegment_LastIndex(counter, count) == counter + count - 1

\* Line 1628.
CounterAfterSegment(counter, count) == counter + count

\* NextSegmentIndex with the increment of the segment index lost.
NextSegmentIndex_Stuck(seg) == seg

\* Line 1552, the step of the for loop.
NextSegmentIndex(seg) == seg + 1

\* Line 1609, the step of the message loop.
NextMsgIdx(k) == k + 1

\* TargetNotFound without the test of target_found_and_processed.
TargetNotFound_IgnoresFound(list, target, found, code) ==
  ~list /\ target >= 0 /\ code # EXIT_FAILURE

\* Line 1636: the target was asked for and never processed.
TargetNotFound(list, target, found, code) ==
  ~list /\ target >= 0 /\ ~found /\ code # EXIT_FAILURE

\* rom_data[lo] .. rom_data[hi - 1] are read, by main (idx = -1) or for
\* message idx of the current segment.
ReadRom(by, idx, lo, hi) ==
  reads' = reads \cup { [ by |-> by, seg |-> segment_index_0_based, idx |-> idx,
                          lo |-> lo, hi |-> hi ] }

LeaveWalk(reason) ==
  /\ pc' = "after_walk"
  /\ stop' = [ reason |-> reason, seg |-> segment_index_0_based ]

\* Line 1552: segment_start < rom_size is false, the for loop ends.
WalkEnd ==
  /\ pc = "seg_loop"
  /\ ~(segment_start < rom_size)
  /\ LeaveWalk("end")
  /\ UNCHANGED << inputVars, mainVars, decVars, handled, outcomes, listing,
                  lastCmd, plays, target_not_found >>
  /\ UNCHANGED reads
  /\ UNCHANGED wav

\* Lines 1563-1571.
HeaderTruncated ==
  /\ pc = "seg_loop"
  /\ segment_start < rom_size
  /\ HeaderTooShort(segment_start, rom_size)
  /\ exit_code' = HeaderShortExit(segment_index_0_based, exit_code)
  /\ LeaveWalk("header_short")
  /\ UNCHANGED << inputVars, segment_start, segment_index_0_based,
                  absolute_msg_idx_counter, target_found_and_processed,
                  message_count_in_segment, offset_table, msg_idx_in_seg,
                  decVars, handled, outcomes, listing, lastCmd, plays,
                  target_not_found >>
  /\ UNCHANGED reads
  /\ UNCHANGED wav

\* Lines 1572-1581.
BadMagic ==
  /\ pc = "seg_loop"
  /\ segment_start < rom_size
  /\ ~HeaderTooShort(segment_start, rom_size)
  /\ ~MagicOk(segment_start)
  /\ exit_code' = BadMagicExit(segment_index_0_based, exit_code)
  /\ LeaveWalk("bad_magic")
  /\ UNCHANGED << inputVars, segment_start, segment_index_0_based,
                  absolute_msg_idx_counter, target_found_and_processed,
                  message_count_in_segment, offset_table, msg_idx_in_seg,
                  decVars, handled, outcomes, listing, lastCmd, plays,
                  target_not_found >>
  /\ ReadRom("header", -1, segment_start, segment_start + 5)
  /\ UNCHANGED wav

\* Lines 1583-1595.
OffsetTableTooLong ==
  /\ pc = "seg_loop"
  /\ segment_start < rom_size
  /\ ~HeaderTooShort(segment_start, rom_size)
  /\ MagicOk(segment_start)
  /\ OffsetTableOverrun(segment_start, MessageCount(RomAt(segment_start)), rom_size)
  /\ message_count_in_segment' = MessageCount(RomAt(segment_start))
  /\ exit_code' = TableOverrunExit(segment_index_0_based, exit_code)
  /\ LeaveWalk("table")
  /\ UNCHANGED << inputVars, segment_start, segment_index_0_based,
                  absolute_msg_idx_counter, target_found_and_processed,
                  offset_table, msg_idx_in_seg,
                  decVars, handled, outcomes, listing, lastCmd, plays,
                  target_not_found >>
  /\ ReadRom("header", -1, segment_start, segment_start + 5)
  /\ UNCHANGED wav

\* Lines 1583-1609: the header and the table are valid; read the table and
\* enter the message loop.
ReadOffsetTable ==
  /\ pc = "seg_loop"
  /\ segment_start < rom_size
  /\ ~HeaderTooShort(segment_start, rom_size)
  /\ MagicOk(segment_start)
  /\ LET count == MessageCount(RomAt(segment_start))
     IN /\ ~OffsetTableOverrun(segment_start, count, rom_size)
        /\ message_count_in_segment' = count
        /\ offset_table' =
             [ k \in 1..count |-> read_u16be(segment_start + 5 + (k - 1) * 2) ]
  /\ msg_idx_in_seg' = 0
  /\ pc' = "msg_loop"
  /\ UNCHANGED << inputVars, segment_start, segment_index_0_based,
                  absolute_msg_idx_counter, target_found_and_processed, exit_code,
                  decVars, histVars >>
  /\ ReadRom("header", -1, segment_start,
             segment_start + 5 + 2 * MessageCount(RomAt(segment_start)))
  /\ UNCHANGED wav

\* Lines 1609, 1627-1633, 1552: the message loop ends, the next segment starts.
EndOfSegment ==
  /\ pc = "msg_loop"
  /\ ~(msg_idx_in_seg < message_count_in_segment)
  /\ absolute_msg_idx_counter' =
       CounterAfterSegment(absolute_msg_idx_counter, message_count_in_segment)
  /\ segment_start' = segment_start + ROM_SEGMENT_SIZE
  /\ segment_index_0_based' = NextSegmentIndex(segment_index_0_based)
  /\ pc' = "seg_loop"
  /\ UNCHANGED << inputVars, target_found_and_processed, exit_code,
                  message_count_in_segment, offset_table, msg_idx_in_seg,
                  decVars, histVars >>
  /\ UNCHANGED reads
  /\ UNCHANGED wav

\* Lines 1635-1649.
FinishMain ==
  /\ pc = "after_walk"
  /\ IF TargetNotFound(list_mode, target_message_idx,
                       target_found_and_processed, exit_code)
       THEN exit_code' = EXIT_FAILURE /\ target_not_found' = TRUE
       ELSE UNCHANGED << exit_code, target_not_found >>
  /\ mapping_table' = free_mapping_table(mapping_table)
  /\ pc' = "done"
  /\ UNCHANGED << argVars, line_num, added, segment_start, segment_index_0_based,
                  absolute_msg_idx_counter, target_found_and_processed,
                  message_count_in_segment, offset_table, msg_idx_in_seg,
                  decVars, handled, outcomes, listing, stop, lastCmd, plays >>
  /\ UNCHANGED reads
  /\ UNCHANGED wav

\* ------------------------------------------- handle_message_iteration

\* Lines 1179-1181: the absolute address of message k of the current segment.
StartAddress(k) == segment_start + offset_table[k + 1] * 2

\* Selected with <= for ==: every record up to the target is processed.
Selected_UpToTarget(target, abs) == target < 0 \/ abs <= target

\* Line 1254: the record is passed to process_message.
Selected(target, abs) == target < 0 \/ abs = target

\* Line 1273: the record is the target of -i.
IsTarget(target, abs) == target >= 0 /\ abs = target

\* Lines 1259-1263: the byte offset of the next message, or the segment end.
NextMessageOffset(k, count) ==
  IF k + 1 < count THEN offset_table[k + 2] * 2 ELSE ROM_SEGMENT_SIZE

\* ProcessMessageReturn reporting an unknown mode byte as a fatal error.
ProcessMessageReturn_UnknownFatal(path) == path # "unknown"

\* ProcessMessageReturn reporting a start address outside the ROM as a fatal
\* error.
ProcessMessageReturn_OutOfBoundsFatal(path) == path # "oob"

\* Lines 965 and 1148: what process_message returns on each of its paths.
ProcessMessageReturn(path) == TRUE

CurrentRecord ==
  [ seg |-> segment_index_0_based,
    idx |-> msg_idx_in_seg,
    abs |-> AbsoluteIndex(absolute_msg_idx_counter, msg_idx_in_seg) ]

\* main calls handle_message_iteration for the current record (line 1610).
HandleCall ==
  /\ pc = "msg_loop"
  /\ msg_idx_in_seg < message_count_in_segment
  /\ handled' = Append(handled, CurrentRecord)

\* Lines 1617-1631: MSG_HANDLED_CONTINUE, the message loop goes on.
Continue ==
  /\ msg_idx_in_seg' = NextMsgIdx(msg_idx_in_seg)
  /\ pc' = "msg_loop"
  /\ UNCHANGED << segment_start, segment_index_0_based, absolute_msg_idx_counter,
                  target_found_and_processed, exit_code,
                  message_count_in_segment, offset_table, stop >>

\* Lines 1270-1277 and 1617-1631: process_message returned `success` for the
\* current record; the result of handle_message_iteration and what main does
\* with it.
ReturnToMain(success) ==
  IF ~success
    THEN /\ exit_code' = EXIT_FAILURE
         /\ absolute_msg_idx_counter' =
              CounterAfterSegment(absolute_msg_idx_counter, message_count_in_segment)
         /\ LeaveWalk("error")
         /\ UNCHANGED << segment_start, segment_index_0_based,
                         target_found_and_processed, message_count_in_segment,
                         offset_table, msg_idx_in_seg >>
    ELSE IF IsTarget(target_message_idx, CurrentRecord.abs)
      THEN /\ target_found_and_processed' = TRUE
           /\ absolute_msg_idx_counter' =
                CounterAfterSegment(absolute_msg_idx_counter, message_count_in_segment)
           /\ LeaveWalk("target")
           /\ UNCHANGED << segment_start, segment_index_0_based, exit_code,
                           message_count_in_segment, offset_table, msg_idx_in_seg >>
      ELSE Continue

\* Lines 1198-1205: the comment of the mapping found, NULL without one.
UserComment(mapping) ==
  IF mapping # 0 THEN mapping_table[mapping].comment ELSE NULL

\* Lines 1192-1233: the string the strcpy and strcat calls put together for
\* comment_buffer.
ListComment(user_comment, mode_read_ok, message_mode) ==
  LET pcm_already_in_user_comment ==
        user_comment # NULL /\ strstr(user_comment, << "(", "P", "C", "M", ")" >>)
      has_user_comment == user_comment # NULL /\ Len(user_comment) > 0
      pcm_tag_added ==
        mode_read_ok /\ message_mode = MODE_PCM /\ ~pcm_already_in_user_comment
      tagged == IF pcm_tag_added THEN << "#", " ", "(", "P", "C", "M", ")" >>
                                 ELSE << "#" >>
  IN IF has_user_comment
       THEN (IF pcm_tag_added \/ tagged = << "#" >> THEN tagged \o << " " >>
                                                      ELSE tagged) \o user_comment
       ELSE IF ~pcm_tag_added THEN tagged \o << " " >> ELSE tagged

\* Lines 1184-1251: list mode; a line is printed unless quiet.  A comment
\* that with its NUL does not fit comment_buffer is written past the end of
\* the array: the line is printed all the same, or the process is killed.
ListMessage ==
  /\ HandleCall
  /\ list_mode
  /\ LET start == StartAddress(msg_idx_in_seg)
         mapping == find_mapping(mapping_table, segment_index_0_based, msg_idx_in_seg)
         mode_read_ok == start < rom_size
         message_mode == IF mode_read_ok THEN RomAt(start) ELSE 255
         comment == ListComment(UserComment(mapping), mode_read_ok, message_mode)
         line == [ seg |-> segment_index_0_based, idx |-> msg_idx_in_seg,
                   abs |-> CurrentRecord.abs,
                   mode_read_ok |-> mode_read_ok,
                   message_mode |-> message_mode,
                   comment |-> comment ]
         read == IF ~quiet_mode /\ mode_read_ok
                   THEN ReadRom("list", msg_idx_in_seg, start, start + 1)
                   ELSE UNCHANGED reads
     IN \/ /\ listing' = IF quiet_mode THEN listing ELSE Append(listing, line)
           /\ read
           /\ Continue
        \/ /\ ~quiet_mode
           /\ Len(comment) + 1 > comment_buffer_size
           /\ read
           /\ pc' = "killed"
           /\ UNCHANGED << mainVars, listing, stop >>
  /\ UNCHANGED << inputVars, decVars, outcomes, lastCmd, plays, target_not_found >>
  /\ UNCHANGED wav

\* Lines 1253-1254, 1277: decode mode, the record is not the target.
SkipMessage ==
  /\ HandleCall
  /\ ~list_mode
  /\ ~Selected(target_message_idx, CurrentRecord.abs)
  /\ Continue
  /\ UNCHANGED << inputVars, decVars, outcomes, listing, lastCmd, plays,
                  target_not_found >>
  /\ UNCHANGED reads
  /\ UNCHANGED wav

\* ------------------------------------------------------ process_message

Dispatch ==
  /\ HandleCall
  /\ ~list_mode
  /\ Selected(target_message_idx, CurrentRecord.abs)

\* Lines 773-782: the size write_wav_file gives the data chunk, 2 bytes for
\* each sample; the limit of line 778 is out of reach of the sample counts
\* here.
data_chunk_size(num_samples) == num_samples * 2

\* What a call of process_message did, for the current record: the path it
\* took, the sink it called and whether the sink reported success, the
\* decoder's result, and the decoder state and read cursor it ended with.
Outcome(path, mode, sink, written, warn, ok, eom, samples, raw, ret) ==
  [ seg |-> segment_index_0_based, idx |-> msg_idx_in_seg,
    abs |-> CurrentRecord.abs,
    start |-> StartAddress(msg_idx_in_seg),
    path |-> path, mode |-> mode, sink |-> sink, written |-> written,
    warn |-> warn, ok |-> ok, eom |-> eom, samples |-> samples, raw |-> raw,
    data_size |-> IF sink = "wav" THEN data_chunk_size(Len(samples)) ELSE 0,
    state |-> adpcm_state, pos |-> current_pos, ret |-> ret ]

\* StartOutOfBounds with > for >=.
StartOutOfBounds_Strict(start_address) == start_address > rom_size

\* Line 961: the bounds check of the start address.
StartOutOfBounds(start_address) == start_address >= rom_size

\* Lines 961-966: the start address is outside the ROM.
ProcessOutOfBounds ==
  /\ Dispatch
  /\ StartOutOfBounds(StartAddress(msg_idx_in_seg))
  /\ outcomes' = Append(outcomes,
       Outcome("oob", -1, "none", FALSE, TRUE, TRUE, FALSE, <<>>, <<>>,
               ProcessMessageReturn("oob")))
  /\ ReturnToMain(ProcessMessageReturn("oob"))
  /\ UNCHANGED << inputVars, decVars, listing, lastCmd, plays, target_not_found >>
  /\ UNCHANGED reads
  /\ UNCHANGED wav

\* MessageEndOffset without the clamp to the ROM size.
MessageEndOffset_NoClamp(next_offset) == segment_start + next_offset

\* Lines 1129-1131: the end of the raw range, clamped to the ROM size.
MessageEndOffset(next_offset) == Min(segment_start + next_offset, rom_size)

\* Lines 1123-1141: mode 0x40, the raw bytes go to the raw sink, which
\* succeeds or fails (save_raw_pcm, lines 906-921); the result is dropped.
ProcessPCM ==
  /\ Dispatch
  /\ LET start == StartAddress(msg_idx_in_seg)
         message_end_offset ==
           MessageEndOffset(NextMessageOffset(msg_idx_in_seg, message_count_in_segment))
     IN /\ ~StartOutOfBounds(start)
        /\ RomAt(start) = MODE_PCM
        /\ IF message_end_offset <= start
             THEN /\ outcomes' = Append(outcomes,
                       Outcome("pcm", MODE_PCM, "none", FALSE, TRUE, TRUE, FALSE,
                               <<>>, <<>>, ProcessMessageReturn("pcm")))
                  /\ ReadRom("mode", msg_idx_in_seg, start, start + 1)
             ELSE \E written \in BOOLEAN :
                    /\ outcomes' = Append(outcomes,
                         Outcome("pcm", MODE_PCM, "raw", written, FALSE, TRUE, FALSE,
                                 <<>>, << start, message_end_offset >>,
                                 ProcessMessageReturn("pcm")))
                    /\ ReadRom("raw", msg_idx_in_seg, start, message_end_offset)
  /\ ReturnToMain(ProcessMessageReturn("pcm"))
  /\ UNCHANGED << inputVars, decVars, listing, lastCmd, plays, target_not_found >>
  /\ UNCHANGED wav

\* Lines 1143-1146: any other mode byte.
ProcessUnknownMode ==
  /\ Dispatch
  /\ LET start == StartAddress(msg_idx_in_seg)
     IN /\ ~StartOutOfBounds(start)
        /\ RomAt(start) # MODE_ADPCM
        /\ RomAt(start) # MODE_PCM
        /\ outcomes' = Append(outcomes,
             Outcome("unknown", RomAt(start), "none", FALSE, TRUE, TRUE, FALSE, <<>>, <<>>,
                     ProcessMessageReturn("unknown")))
  /\ ReturnToMain(ProcessMessageReturn("unknown"))
  /\ UNCHANGED << inputVars, decVars, listing, lastCmd, plays, target_not_found >>
  /\ ReadRom("mode", msg_idx_in_seg, StartAddress(msg_idx_in_seg),
             StartAddress(msg_idx_in_seg) + 1)
  /\ UNCHANGED wav

\* Lines 984-995: mode 0x00, the decoder is set up.
ProcessADPCM ==
  /\ Dispatch
  /\ LET start == StartAddress(msg_idx_in_seg)
     IN /\ ~StartOutOfBounds(start)
        /\ RomAt(start) = MODE_ADPCM
        /\ current_pos' = start + 1
  /\ adpcm_state' = [ current_sample |-> 0, adpcm_state |-> 0 ]
  /\ pcm_buffer' = <<>>
  /\ decoding_ok' = TRUE
  /\ end_of_message' = FALSE
  /\ nibble_count' = 0
  /\ repeat_count' = 0
  /\ current_repeat_nibble_start' = 0
  /\ current_repeat_nibble_count' = 0
  /\ lastCmd' = [ op |-> -1, n |-> -1, base |-> 0, pos |-> 0 ]
  /\ plays' = 0
  /\ pc' = "decode"
  /\ UNCHANGED << inputVars, mainVars, outcomes, listing, stop, target_not_found >>
  /\ ReadRom("mode", msg_idx_in_seg, StartAddress(msg_idx_in_seg),
             StartAddress(msg_idx_in_seg) + 1)
  /\ UNCHANGED wav

\* -------------------------------------------------------- decode_nibble

\* decode_nibble without the clamp of lines 660-663 on the new sample.
decode_nibble_NoSampleClamp(nibble, state) ==
  LET index == IF state.adpcm_state < 0 \/ state.adpcm_state > 15
                 THEN 0 ELSE state.adpcm_state
      diff == step_table[index + 1][nibble + 1]
      next_sample == state.current_sample + diff
      raw_state == index + state_table[nibble + 1]
      next_state == IF raw_state < 0 THEN 0
                    ELSE IF raw_state > 15 THEN 15 ELSE raw_state
      shifted == ToInt16(next_sample * 128)
      high == IF next_sample > 255 /\ diff > 0 THEN 32767 ELSE shifted
      pcm_sample == IF next_sample < -256 /\ diff < 0 THEN -32768 ELSE high
  IN [ state |-> [ current_sample |-> next_sample, adpcm_state |-> next_state ],
       pcm_sample |-> pcm_sample ]

\* decode_nibble leaving the step index as it was.
decode_nibble_IndexUnchanged(nibble, state) ==
  LET index == IF state.adpcm_state < 0 \/ state.adpcm_state > 15
                 THEN 0 ELSE state.adpcm_state
      diff == step_table[index + 1][nibble + 1]
      sum == state.current_sample + diff
      next_sample == IF sum > 32767 THEN 32767
                     ELSE IF sum < -32768 THEN -32768 ELSE sum
      shifted == ToInt16(next_sample * 128)
      high == IF next_sample > 255 /\ diff > 0 THEN 32767 ELSE shifted
      pcm_sample == IF next_sample < -256 /\ diff < 0 THEN -32768 ELSE high
  IN [ state |-> [ current_sample |-> next_sample, adpcm_state |-> index ],
       pcm_sample |-> pcm_sample ]

\* Lines 639-684.  The result is the new state and the sample appended.
\* current_sample << 7 is taken as multiplication by 128 and the conversion
\* to int16_t as truncation to 16 bits; 32767 >> 7 is 255, -32768 >> 7 is -256.
decode_nibble(nibble, state) ==
  LET index == IF state.adpcm_state < 0 \/ state.adpcm_state > 15
                 THEN 0 ELSE state.adpcm_state
      diff == step_table[index + 1][nibble + 1]
      sum == state.current_sample + diff
      next_sample == IF sum > 32767 THEN 32767
                     ELSE IF sum < -32768 THEN -32768 ELSE sum
      raw_state == index + state_table[nibble + 1]
      next_state == IF raw_state < 0 THEN 0
                    ELSE IF raw_state > 15 THEN 15 ELSE raw_state
      shifted == ToInt16(next_sample * 128)
      high == IF next_sample > 255 /\ diff > 0 THEN 32767 ELSE shifted
      pcm_sample == IF next_sample < -256 /\ diff < 0 THEN -32768 ELSE high
  IN [ state |-> [ current_sample |-> next_sample, adpcm_state |-> next_state ],
       pcm_sample |-> pcm_sample ]

\* ---------------------------------- process_message: the ADPCM decoder

\* Line 997, the condition of the while loop.
LoopCond == ~end_of_message /\ current_pos < rom_size

\* SilenceSamples with a factor of 4 for 8.
SilenceSamples_Factor4(command) == command * 4

\* Line 1059.
SilenceSamples(command) == command * 8

\* RepeatBits taking the six low bits of the command.
RepeatBits_SixBits(command) == command % 64

\* RepeatBits two too high.
RepeatBits_PlusTwo(command) == ((command \div 8) % 8) + 2

\* Line 1089: the R bits of a repeat command.
RepeatBits(command) == (command \div 8) % 8

\* BlockNibbles taking the operand itself as the number of nibbles.
BlockNibbles_NoPlusOne(n) == n

\* Lines 1078 and 1088.
BlockNibbles(n) == n + 1

\* The rewind with the decoder state set back to that of a new message.
RewindState_Reset(state) == [ current_sample |-> 0, adpcm_state |-> 0 ]

\* Lines 1028-1035: the rewind assigns current_pos and nibble_count and
\* nothing else; adpcm_state is what the last nibble left.
RewindState(state) == state

\* Lines 999-1041: one data byte, its high nibble first, and the repeat logic.
\* The check of line 1002 cannot hold here: the loop condition of line 997
\* was tested on the same current_pos.
DecodeData ==
  /\ pc = "decode"
  /\ LoopCond
  /\ nibble_count > 0
  /\ ~(current_pos >= rom_size)
  /\ LET data_byte == RomAt(current_pos)
         nibble1 == (data_byte \div 16) % 16
         nibble2 == data_byte % 16
         d1 == decode_nibble(nibble1, adpcm_state)
         left1 == nibble_count - 1
         d2 == decode_nibble(nibble2, d1.state)
         left2 == IF left1 > 0 THEN left1 - 1 ELSE left1
         samples == IF left1 > 0 THEN << d1.pcm_sample, d2.pcm_sample >>
                                 ELSE << d1.pcm_sample >>
         block_done == repeat_count > 0 /\ left2 = 0
         repeats_left == IF block_done THEN repeat_count - 1 ELSE repeat_count
         after == IF left1 > 0 THEN d2.state ELSE d1.state
     IN /\ adpcm_state' = IF block_done /\ repeats_left > 0
                             THEN RewindState(after) ELSE after
        /\ pcm_buffer' = pcm_buffer \o samples
        /\ repeat_count' = repeats_left
        /\ IF block_done /\ repeats_left > 0
             THEN /\ current_pos' = current_repeat_nibble_start
                  /\ nibble_count' = current_repeat_nibble_count
                  /\ UNCHANGED << current_repeat_nibble_start,
                                  current_repeat_nibble_count >>
             ELSE /\ current_pos' = current_pos + 1
                  /\ nibble_count' = left2
                  /\ IF block_done
                       THEN /\ current_repeat_nibble_start' = 0
                            /\ current_repeat_nibble_count' = 0
                       ELSE UNCHANGED << current_repeat_nibble_start,
                                         current_repeat_nibble_count >>
        /\ plays' = IF left2 = 0 THEN plays + 1 ELSE plays
  /\ UNCHANGED << inputVars, pc, mainVars, decoding_ok, end_of_message,
                  handled, outcomes, listing, stop, lastCmd, target_not_found >>
  /\ ReadRom("data", msg_idx_in_seg, current_pos, current_pos + 1)
  /\ UNCHANGED wav

\* Lines 1043-1053: a command byte is read.  The check of line 1046 cannot
\* hold here, for the same reason as that of line 1002.
CommandRead(lo, hi) ==
  /\ pc = "decode"
  /\ LoopCond
  /\ ~(nibble_count > 0)
  /\ ~(current_pos >= rom_size)
  /\ RomAt(current_pos) \in lo..hi
  /\ plays' = 0

\* Lines 1055-1057.
CmdEndOfMessage ==
  /\ CommandRead(0, 0)
  /\ end_of_message' = TRUE
  /\ current_pos' = current_pos + 1
  /\ lastCmd' = [ op |-> 0, n |-> -1,
                  base |-> Len(pcm_buffer), pos |-> current_pos ]
  /\ UNCHANGED << inputVars, pc, mainVars, adpcm_state, pcm_buffer, decoding_ok,
                  nibble_count, repeat_count, current_repeat_nibble_start,
                  current_repeat_nibble_count,
                  handled, outcomes, listing, stop, target_not_found >>
  /\ ReadRom("command", msg_idx_in_seg, current_pos, current_pos + 1)
  /\ UNCHANGED wav

\* Lines 1058-1066.
CmdSilence ==
  /\ CommandRead(1, 63)
  /\ LET command == RomAt(current_pos)
     IN /\ pcm_buffer' = pcm_buffer \o Zeros(SilenceSamples(command))
        /\ lastCmd' = [ op |-> command, n |-> -1,
                        base |-> Len(pcm_buffer), pos |-> current_pos ]
  /\ current_pos' = current_pos + 1
  /\ UNCHANGED << inputVars, pc, mainVars, adpcm_state, decoding_ok, end_of_message,
                  nibble_count, repeat_count, current_repeat_nibble_start,
                  current_repeat_nibble_count,
                  handled, outcomes, listing, stop, target_not_found >>
  /\ ReadRom("command", msg_idx_in_seg, current_pos, current_pos + 1)
  /\ UNCHANGED wav

\* Lines 1067-1070.
CmdShortBlock ==
  /\ CommandRead(64, 127)
  /\ nibble_count' = 256
  /\ repeat_count' = 0
  /\ current_pos' = current_pos + 1
  /\ lastCmd' = [ op |-> RomAt(current_pos), n |-> -1,
                  base |-> Len(pcm_buffer), pos |-> current_pos ]
  /\ UNCHANGED << inputVars, pc, mainVars, adpcm_state, pcm_buffer, decoding_ok,
                  end_of_message, current_repeat_nibble_start,
                  current_repeat_nibble_count,
                  handled, outcomes, listing, stop, target_not_found >>
  /\ ReadRom("command", msg_idx_in_seg, current_pos, current_pos + 1)
  /\ UNCHANGED wav

\* Lines 1073-1076 and 1083-1086: no byte is left for the operand N; the
\* decode fails and the loop is left by break.
OperandMissing ==
  /\ decoding_ok' = FALSE
  /\ current_pos' = current_pos + 1
  /\ lastCmd' = [ op |-> RomAt(current_pos), n |-> -1,
                  base |-> Len(pcm_buffer), pos |-> current_pos ]
  /\ pc' = "decode_end"
  /\ UNCHANGED << nibble_count, repeat_count, current_repeat_nibble_start,
                  current_repeat_nibble_count >>

\* Lines 1071-1080.
CmdLongBlock ==
  /\ CommandRead(128, 191)
  /\ IF current_pos + 1 >= rom_size
       THEN OperandMissing
       ELSE LET n == RomAt(current_pos + 1)
            IN /\ current_pos' = current_pos + 2
               /\ nibble_count' = BlockNibbles(n)
               /\ repeat_count' = 0
               /\ lastCmd' = [ op |-> RomAt(current_pos), n |-> n,
                               base |-> Len(pcm_buffer), pos |-> current_pos ]
               /\ UNCHANGED << pc, decoding_ok, current_repeat_nibble_start,
                               current_repeat_nibble_count >>
  /\ UNCHANGED << inputVars, mainVars, adpcm_state, pcm_buffer, end_of_message,
                  handled, outcomes, listing, stop, target_not_found >>
  /\ ReadRom("command", msg_idx_in_seg, current_pos,
             IF current_pos + 1 >= rom_size THEN current_pos + 1 ELSE current_pos + 2)
  /\ UNCHANGED wav

\* Lines 1081-1093.
CmdRepeatBlock ==
  /\ CommandRead(192, 255)
  /\ IF current_pos + 1 >= rom_size
       THEN OperandMissing
       ELSE LET n == RomAt(current_pos + 1)
            IN /\ current_pos' = current_pos + 2
               /\ nibble_count' = BlockNibbles(n)
               /\ repeat_count' = RepeatBits(RomAt(current_pos))
               /\ current_repeat_nibble_start' = current_pos + 2
               /\ current_repeat_nibble_count' = BlockNibbles(n)
               /\ lastCmd' = [ op |-> RomAt(current_pos), n |-> n,
                               base |-> Len(pcm_buffer), pos |-> current_pos ]
               /\ UNCHANGED << pc, decoding_ok >>
  /\ UNCHANGED << inputVars, mainVars, adpcm_state, pcm_buffer, end_of_message,
                  handled, outcomes, listing, stop, target_not_found >>
  /\ ReadRom("command", msg_idx_in_seg, current_pos,
             IF current_pos + 1 >= rom_size THEN current_pos + 1 ELSE current_pos + 2)
  /\ UNCHANGED wav

\* ------------------------------------------------------- write_wav_file

\* Numbers of up to 47 bits as two limbs, h * 65536 + l with l < 65536: the
\* sample count is a size_t, the sizes of the file are uint32_t and
\* uint64_t.
Wide(h, l) == [ h |-> h, l |-> l ]

WideOf(n) == Wide(n \div 65536, n % 65536)

WideAdd(a, b) == Wide(a.h + b.h + ((a.l + b.l) \div 65536), (a.l + b.l) % 65536)

WideGreater(a, b) == a.h > b.h \/ (a.h = b.h /\ a.l > b.l)

\* The conversion to uint32_t: the value modulo 2^32.
ToUint32(a) == Wide(a.h % 65536, a.l)

UINT32_MAX == Wide(65535, 65535)

\* Lines 745 and 771: date_str holds "YYYY-MM-DD".
date_str_len == 10

\* Line 748: strlen("Nortel Millennium VoiceWare").
album_len == 27

\* strlen of a string argument given by its length, -1 standing for NULL.
StrLenOf(str) == IF str = NULL THEN -1 ELSE Len(str)

\* Lines 791-804: what write_wav_file adds to info_chunk_data_size for a
\* text of length text_len.
InfoSizeOf(text_len) ==
  LET temp_len == text_len + 1
      temp_pad == temp_len % 2 # 0
  IN 4 + 4 + temp_len + (IF temp_pad THEN 1 ELSE 0)

\* Lines 698-723: the bytes write_info_sub_chunk writes for a text of length
\* text_len: id, size, text with its NUL, padding.
write_info_sub_chunk(text_len) ==
  LET chunk_size == text_len + 1
      needs_padding == chunk_size % 2 # 0
  IN 4 + 4 + chunk_size + (IF needs_padding THEN 1 ELSE 0)

\* Lines 738-881.  count is pcm_buffer->count; the texts are given by their
\* lengths, comment_len is -1 for a NULL comment; io is "ok", or "fopen" when
\* the file cannot be opened, or "write" when a write fails.  The result
\* gives what was returned, the sizes written in the three headers and the
\* numbers of bytes that follow the RIFF and the LIST size fields in a file
\* written to the end.
write_wav_file(io, count, artist_len, title_len, track_len, comment_len) ==
  LET num_samples == ToUint32(count)
      data_chunk_size_64 == WideAdd(num_samples, num_samples)
      overflow == WideGreater(data_chunk_size_64, UINT32_MAX)
      data_size == ToUint32(data_chunk_size_64)
      data_needs_padding == data_size.l % 2 # 0
      padded_data_chunk_size ==
        ToUint32(WideAdd(data_size, WideOf(IF data_needs_padding THEN 1 ELSE 0)))
      has_comment == comment_len > 0
      info_chunk_data_size ==
        4 + InfoSizeOf(album_len) + InfoSizeOf(artist_len) + InfoSizeOf(title_len)
          + InfoSizeOf(track_len) + InfoSizeOf(date_str_len)
          + (IF has_comment THEN InfoSizeOf(comment_len) ELSE 0)
      info_chunk_total_size == 4 + info_chunk_data_size
      fmt_chunk_size == 16
      riff_chunk_size ==
        ToUint32(WideAdd(WideOf(4 + (4 + 4 + fmt_chunk_size) + info_chunk_total_size
                                  + (4 + 4)),
                         padded_data_chunk_size))
      info_bytes ==
        4 + write_info_sub_chunk(album_len) + write_info_sub_chunk(artist_len)
          + write_info_sub_chunk(title_len) + write_info_sub_chunk(track_len)
          + write_info_sub_chunk(date_str_len)
          + (IF has_comment THEN write_info_sub_chunk(comment_len) ELSE 0)
      data_bytes == WideAdd(WideAdd(count, count),
                            WideOf(IF data_needs_padding THEN 1 ELSE 0))
      riff_bytes ==
        WideAdd(WideOf(4 + (4 + 4 + 16) + (4 + 4 + info_bytes) + (4 + 4)), data_bytes)
      opened == io # "fopen"
      success == opened /\ ~overflow /\ io = "ok"
  IN [ called |-> TRUE, count |-> count, comment_len |-> comment_len,
       success |-> success,
       header_written |-> opened /\ ~overflow,
       riff_chunk_size |-> riff_chunk_size,
       info_chunk_data_size |-> info_chunk_data_size,
       data_chunk_size |-> data_size,
       riff_bytes |-> riff_bytes,
       info_bytes |-> info_bytes,
       icmt_written |-> has_comment ]

\* The number of characters "%d" prints for n >= 0.
RECURSIVE DecimalDigits(_)
DecimalDigits(n) == IF n < 10 THEN 1 ELSE 1 + DecimalDigits(n \div 10)

\* Lines 972-973: strlen of "message_%d_%03d".
DefaultNameLen(seg, idx) ==
  8 + DecimalDigits(seg) + 1
    + (IF DecimalDigits(idx) < 3 THEN 3 ELSE DecimalDigits(idx))

\* The name of the ROM file without its directory, the Artist tag of every
\* WAV file (lines 1519-1530).
rom_basename == << "r", ".", "b", "i", "n" >>

\* Lines 975-979 and 1104-1111: the call of write_wav_file for the current
\* record.
WavCallOf(io) ==
  LET mapping == find_mapping(mapping_table, segment_index_0_based, msg_idx_in_seg)
      title_len == IF mapping # 0
                     THEN Len(mapping_table[mapping].output_filename_base)
                     ELSE DefaultNameLen(segment_index_0_based, msg_idx_in_seg)
      comment_len == IF mapping # 0 THEN StrLenOf(mapping_table[mapping].comment)
                                    ELSE -1
  IN write_wav_file(io, WideOf(Len(pcm_buffer)), Len(rom_basename), title_len,
                    DecimalDigits(CurrentRecord.abs), comment_len)

\* WavWritten without the test of the sample count.
WavWritten_EvenIfEmpty(ok, count) == ok

\* Line 1104: the WAV sink is called for the decoded message.
WavWritten(ok, count) == ok /\ count > 0

\* Lines 997 and 1102-1121, 1148: the while loop is left, by its condition or
\* by a break; the WAV sink is called or not and succeeds or fails
\* (write_wav_file, lines 761-880; the result is dropped at line 1111), the
\* buffer is freed and process_message returns.
DecodeEnd ==
  /\ \/ pc = "decode" /\ ~LoopCond
     \/ pc = "decode_end"
  /\ IF WavWritten(decoding_ok, Len(pcm_buffer))
       THEN \E io \in { "ok", "fopen", "write" } :
              /\ wav' = WavCallOf(io)
              /\ outcomes' = Append(outcomes,
                   Outcome("adpcm", MODE_ADPCM, "wav", WavCallOf(io).success,
                           ~decoding_ok, decoding_ok, end_of_message, pcm_buffer,
                           <<>>, ProcessMessageReturn("adpcm")))
       ELSE /\ outcomes' = Append(outcomes,
                 Outcome("adpcm", MODE_ADPCM, "none", FALSE, ~decoding_ok,
                         decoding_ok, end_of_message, pcm_buffer, <<>>,
                         ProcessMessageReturn("adpcm")))
            /\ UNCHANGED wav
  /\ ReturnToMain(ProcessMessageReturn("adpcm"))
  /\ current_pos' = 0
  /\ adpcm_state' = [ current_sample |-> 0, adpcm_state |-> 0 ]
  /\ pcm_buffer' = <<>>
  /\ decoding_ok' = TRUE
  /\ end_of_message' = FALSE
  /\ nibble_count' = 0
  /\ repeat_count' = 0
  /\ current_repeat_nibble_start' = 0
  /\ current_repeat_nibble_count' = 0
  /\ lastCmd' = [ op |-> -1, n |-> -1, base |-> 0, pos |-> 0 ]
  /\ plays' = 0
  /\ UNCHANGED << inputVars, handled, listing, target_not_found >>
  /\ UNCHANGED reads

\* ------------------------------------------------------- specification

Next ==
  \/ NoMappingFile
  \/ MapOpenFails
  \/ MapLineSkipped
  \/ MapLineMalformed
  \/ MapLineAdded
  \/ MapLoaded
  \/ WalkEnd
  \/ HeaderTruncated
  \/ BadMagic
  \/ OffsetTableTooLong
  \/ ReadOffsetTable
  \/ EndOfSegment
  \/ ListMessage
  \/ SkipMessage
  \/ ProcessOutOfBounds
  \/ ProcessPCM
  \/ ProcessUnknownMode
  \/ ProcessADPCM
  \/ DecodeData
  \/ CmdEndOfMessage
  \/ CmdSilence
  \/ CmdShortBlock
  \/ CmdLongBlock
  \/ CmdRepeatBlock
  \/ DecodeEnd
  \/ FinishMain

Spec == Init /\ [][Next]_vars

\* ------------------------------------ decode_nibble on the whole state range

\* Values of current_sample at and next to both ends of int16_t and around 0;
\* the largest step of step_table is 214.
NibbleSamples ==
  { -32768, -32767, -32555, -32554, -257, -256, -1, 0, 1, 255, 256, 32553, 32554,
    32766, 32767 }

\* Data bytes: every nibble value in the high and in the low half.
NibbleBytes == { 17 * k : k \in 0..15 } \cup { 8, 127, 128, 247 }

\* One ADPCM message at byte 8 holding a long block of n+1 nibbles in one data
\* byte, which is the last byte of the file.
NibbleRom(n, b) ==
  [ size |-> 12,
    segs |-> << SegImage(0, ROM_MAGIC, <<4>>, 8, << MODE_ADPCM, 128, n, b >>) >> ]

\* The decoder of process_message about to read the data byte (line 1007), in
\* any state of the range of AdpcmState.
NibbleInit ==
  /\ \E n \in 0..1, b \in NibbleBytes :
       /\ rom = NibbleRom(n, b)
       /\ nibble_count = BlockNibbles(n)
       /\ lastCmd = [ op |-> 128, n |-> n, base |-> 0, pos |-> 9 ]
  /\ list_mode = FALSE
  /\ quiet_mode = FALSE
  /\ target_message_idx = -1
  /\ map_file = NoMap
  /\ line_num = 0
  /\ mapping_table = <<>>
  /\ added = <<>>
  /\ pc = "decode"
  /\ segment_start = 0
  /\ segment_index_0_based = 0
  /\ absolute_msg_idx_counter = 0
  /\ target_found_and_processed = FALSE
  /\ exit_code = EXIT_SUCCESS
  /\ message_count_in_segment = 1
  /\ offset_table = <<4>>
  /\ msg_idx_in_seg = 0
  /\ current_pos = 11
  /\ adpcm_state \in [ current_sample : NibbleSamples, adpcm_state : 0..15 ]
  /\ pcm_buffer = <<>>
  /\ decoding_ok = TRUE
  /\ end_of_message = FALSE
  /\ repeat_count = 0
  /\ current_repeat_nibble_start = 0
  /\ current_repeat_nibble_count = 0
  /\ handled = << [ seg |-> 0, idx |-> 0, abs |-> 0 ] >>
  /\ outcomes = <<>>
  /\ listing = <<>>
  /\ stop = [ reason |-> "none", seg |-> -1 ]
  /\ plays = 0
  /\ target_not_found = FALSE
  /\ reads = {}
  /\ wav = NoWav

NibbleNext == DecodeData

NibbleSpec == NibbleInit /\ [][NibbleNext]_vars

\* ------------------------------------------- the decoding loop, run on

\* Command streams with repeat commands back to back, with a repeat command
\* whose data bytes are repeat commands themselves, with every kind of
\* command, with and without an end-of-message command.
LoopPayloads ==
  { <<248, 0, 112, 200, 1, 17, 0>>, <<208, 1, 200, 200, 1, 0>>,
    <<255, 3, 248, 255, 63, 128, 2, 18, 52, 0>>, <<1, 192, 0, 16, 248, 2, 255, 255>>,
    <<64>>, <<127>> }

\* One ADPCM message at byte 8 with a stream of LoopPayloads, the file ending
\* anywhere in the stream or after it, or going on with zero bytes to the
\* end of the segment.
LoopRoms ==
  { [ size |-> 9 + k,
      segs |-> << SegImage(0, ROM_MAGIC, <<4>>, 8, <<MODE_ADPCM>> \o q) >> ] :
      <<q, k>> \in { <<q, k>> \in LoopPayloads \X (0..10) : k <= Len(q) } }
    \cup { [ size |-> ROM_SEGMENT_SIZE,
             segs |-> << SegImage(0, ROM_MAGIC, <<4>>, 8, <<MODE_ADPCM>> \o q) >> ] :
             q \in LoopPayloads \cup FullPayloads }

\* process_message has read the mode byte 0x00 of the one message of a ROM
\* of LoopRoms and is about to enter the while loop of line 997, as
\* ProcessADPCM leaves it.
LoopInit ==
  /\ rom \in LoopRoms
  /\ list_mode = FALSE
  /\ quiet_mode = FALSE
  /\ target_message_idx = -1
  /\ map_file = NoMap
  /\ line_num = 0
  /\ mapping_table = <<>>
  /\ added = <<>>
  /\ pc = "decode"
  /\ segment_start = 0
  /\ segment_index_0_based = 0
  /\ absolute_msg_idx_counter = 0
  /\ target_found_and_processed = FALSE
  /\ exit_code = EXIT_SUCCESS
  /\ message_count_in_segment = 1
  /\ offset_table = <<4>>
  /\ msg_idx_in_seg = 0
  /\ current_pos = 9
  /\ adpcm_state = [ current_sample |-> 0, adpcm_state |-> 0 ]
  /\ pcm_buffer = <<>>
  /\ decoding_ok = TRUE
  /\ end_of_message = FALSE
  /\ nibble_count = 0
  /\ repeat_count = 0
  /\ current_repeat_nibble_start = 0
  /\ current_repeat_nibble_count = 0
  /\ handled = << [ seg |-> 0, idx |-> 0, abs |-> 0 ] >>
  /\ outcomes = <<>>
  /\ listing = <<>>
  /\ stop = [ reason |-> "none", seg |-> -1 ]
  /\ lastCmd = [ op |-> -1, n |-> -1, base |-> 0, pos |-> 0 ]
  /\ plays = 0
  /\ target_not_found = FALSE
  /\ reads = { [ by |-> "mode", seg |-> 0, idx |-> 0, lo |-> 8, hi |-> 9 ] }
  /\ wav = NoWav

\* The steps of the loop and the step that leaves it.
LoopNext ==
  \/ DecodeData
  \/ CmdEndOfMessage
  \/ CmdSilence
  \/ CmdShortBlock
  \/ CmdLongBlock
  \/ CmdRepeatBlock
  \/ DecodeEnd

\* The program runs on: a step that can be taken is taken.
LoopSpec == LoopInit /\ [][LoopNext]_vars /\ WF_vars(LoopNext)

\* ------------------------------------ write_wav_file on large sample counts

\* Sample counts of a size_t: small ones, and those at 2^31 and at 2^32,
\* where twice the count and the count itself leave the range of uint32_t.
WavCounts ==
  { Wide(0, 1), Wide(0, 2), Wide(0, 3), Wide(1, 0),
    Wide(32767, 65535), Wide(32768, 0), Wide(32768, 1),
    Wide(65535, 65535), Wide(65536, 0), Wide(65536, 5), Wide(98304, 0) }

\* Lengths of the Artist, Title and Track texts, and of the comment: NULL
\* (-1), empty, odd and even lengths.
WavArtistLens == { 1, 5, 8 }

WavTitleLens == { 1, 13, 14 }

WavTrackLens == { 1, 2 }

WavCommentLens == { -1, 0, 1, 4 }

\* process_message is about to call write_wav_file (line 1111) for a buffer
\* of wav.count samples; the buffer itself is not held.
WavInit ==
  /\ wav \in [ called : { FALSE }, count : WavCounts, artist_len : WavArtistLens,
                title_len : WavTitleLens, track_len : WavTrackLens,
                comment_len : WavCommentLens ]
  /\ rom = NibbleRom(0, 0)
  /\ list_mode = FALSE
  /\ quiet_mode = FALSE
  /\ target_message_idx = -1
  /\ map_file = NoMap
  /\ line_num = 0
  /\ mapping_table = <<>>
  /\ added = <<>>
  /\ pc = "wav_call"
  /\ segment_start = 0
  /\ segment_index_0_based = 0
  /\ absolute_msg_idx_counter = 0
  /\ target_found_and_processed = FALSE
  /\ exit_code = EXIT_SUCCESS
  /\ message_count_in_segment = 1
  /\ offset_table = <<4>>
  /\ msg_idx_in_seg = 0
  /\ current_pos = 12
  /\ adpcm_state = [ current_sample |-> 0, adpcm_state |-> 0 ]
  /\ pcm_buffer = <<>>
  /\ decoding_ok = TRUE
  /\ end_of_message = TRUE
  /\ nibble_count = 0
  /\ repeat_count = 0
  /\ current_repeat_nibble_start = 0
  /\ current_repeat_nibble_count = 0
  /\ handled = << [ seg |-> 0, idx |-> 0, abs |-> 0 ] >>
  /\ outcomes = <<>>
  /\ listing = <<>>
  /\ stop = [ reason |-> "none", seg |-> -1 ]
  /\ lastCmd = [ op |-> 0, n |-> -1, base |-> 0, pos |-> 11 ]
  /\ plays = 0
  /\ target_not_found = FALSE
  /\ reads = {}

\* Line 1111: the call, with the outcome of the file operations.
WavCall ==
  /\ pc = "wav_call"
  /\ \E io \in { "ok", "fopen", "write" } :
       wav' = write_wav_file(io, wav.count, wav.artist_len, wav.title_len,
                             wav.track_len, wav.comment_len)
  /\ pc' = "wav_done"
  /\ UNCHANGED << inputVars, mainVars, decVars, histVars, reads >>

WavNext == WavCall

WavSpec == WavInit /\ [][WavNext]_vars

\* ---------------------------------------------- what the claims speak of

\* The message count the header of segment i states.
HeaderCount(i) == RomAt(i * ROM_SEGMENT_SIZE) + 1

\* The number of messages in segments 0..i-1.
RECURSIVE MessagesBefore(_)
MessagesBefore(i) == IF i <= 0 THEN 0 ELSE MessagesBefore(i - 1) + HeaderCount(i - 1)

\* The records of segments 0..i-1, in order.
RECURSIVE RecordsBefore(_)
RecordsBefore(i) ==
  IF i <= 0 THEN <<>>
  ELSE RecordsBefore(i - 1) \o
       [ k \in 1..HeaderCount(i - 1) |->
           [ seg |-> i - 1, idx |-> k - 1, abs |-> MessagesBefore(i - 1) + k - 1 ] ]

\* (seg, idx) of record a lexicographically before that of record b.
PairBefore(a, b) == a.seg < b.seg \/ (a.seg = b.seg /\ a.idx < b.idx)

\* A sequence of records in strictly ascending (seg, idx) and abs.
Ascending(q) ==
  \A j \in 1..(Len(q) - 1) : PairBefore(q[j], q[j + 1]) /\ q[j].abs < q[j + 1].abs

WalkLeft == pc \in { "after_walk", "done" } /\ stop.reason # "map"

\* The segment loop was left at the checks of segment stop.seg.
StoppedAtChecks == WalkLeft /\ stop.reason \notin { "target", "error" }

\* The header check of segment i fails on this ROM.
HeaderFails(i) ==
  LET start == i * ROM_SEGMENT_SIZE
  IN /\ start < rom_size
     /\ \/ rom_size - start < 5
        \/ << RomAt(start + 1), RomAt(start + 2), RomAt(start + 3), RomAt(start + 4) >>
             # << 90, 165, 105, 85 >>

\* The header of segment i is valid and its offset table overruns the
\* segment or the ROM.
TableOverruns(i) ==
  LET start == i * ROM_SEGMENT_SIZE
  IN /\ start < rom_size
     /\ ~HeaderFails(i)
     /\ \/ 5 + 2 * HeaderCount(i) > 131072
        \/ 5 + 2 * HeaderCount(i) > rom_size - start

InDecode == pc \in { "decode", "decode_end" }

\* The absolute indices of the records passed to process_message so far.
DispatchedAbs ==
  { outcomes[j].abs : j \in 1..Len(outcomes) }
    \cup (IF InDecode THEN { handled[Len(handled)].abs } ELSE {})

\* ---------------------------------------------------------------- claims

\* C1: when the decoder is back in command state after a repeat command c
\* (0xC0..0xFF) with operand n, the block of n+1 nibbles has been played
\* 1 + ((c>>3)&7) times: (1+r)*(n+1) samples were appended since the command.
C1_RepeatPlaysOnePlusR ==
  (pc = "decode" /\ lastCmd.op \in 192..255 /\ lastCmd.n >= 0 /\ nibble_count = 0)
    => Len(pcm_buffer) - lastCmd.base
         = (1 + ((lastCmd.op \div 8) % 8)) * (lastCmd.n + 1)

\* C2: an ADPCM message whose decode ended without the end-of-message opcode
\* having been read (the ROM bytes ran out) is a decode error: its samples are
\* dropped and the WAV sink is not called.
C2_TruncationIsError ==
  \A j \in 1..Len(outcomes) :
    (outcomes[j].path = "adpcm" /\ ~outcomes[j].eom)
      => (~outcomes[j].ok /\ outcomes[j].sink # "wav")

\* C3: every record passed to handle_message_iteration has an absolute index
\* equal to the number of records passed before it, which is the message
\* count of the earlier segments plus its index in its segment.
C3_AbsoluteIndexContiguous ==
  \A j \in 1..Len(handled) :
    /\ handled[j].abs = j - 1
    /\ handled[j].abs = MessagesBefore(handled[j].seg) + handled[j].idx

C3_Witness ==
  /\ Len(handled) >= 3
  /\ handled[Len(handled)].seg = 1
  /\ handled[Len(handled)].idx = 1

\* C4: records are handled, and the WAV, raw and listing sinks are called, in
\* strictly ascending (segment_index, msg_index_in_segment), hence in strictly
\* ascending absolute index.
C4_AscendingOrder ==
  /\ Ascending(handled)
  /\ Ascending(outcomes)
  /\ Ascending(listing)

C4_Witness ==
  /\ Len(outcomes) >= 3
  /\ outcomes[1].sink = "raw"
  /\ outcomes[Len(outcomes)].sink = "wav"
  /\ outcomes[Len(outcomes)].seg = 1

\* C5: when the header check of segment i fails, for i = 0 the run ends with
\* a failure exit status and no record is emitted; for i > 0 the walker stops
\* with the exit status still success (after the walk only the missing target
\* of -i can change it) and every record of segments 0..i-1 has been emitted.
C5_HeaderCheckFailure ==
  (StoppedAtChecks /\ HeaderFails(stop.seg))
    => IF stop.seg = 0
         THEN exit_code = EXIT_FAILURE /\ handled = <<>>
         ELSE /\ handled = RecordsBefore(stop.seg)
              /\ pc = "after_walk" => exit_code = EXIT_SUCCESS
              /\ pc = "done" => (exit_code = EXIT_SUCCESS \/ target_not_found)

C5_Witness ==
  /\ pc = "done"
  /\ StoppedAtChecks
  /\ HeaderFails(stop.seg)
  /\ stop.seg = 1
  /\ Len(handled) = 2
  /\ exit_code = EXIT_SUCCESS

\* C6 as stated: a container-invalid condition (bad magic, truncated header,
\* offset table overrun) sets the failure status only in segment 0; in a
\* segment i > 0 it is a soft end and the exit status is not set to failure.
C6_SoftEndAfterSegment0 ==
  (pc = "after_walk" /\ StoppedAtChecks
     /\ (HeaderFails(stop.seg) \/ TableOverruns(stop.seg)))
    => (exit_code = EXIT_FAILURE <=> stop.seg = 0)

\* C6 amended: a bad magic or a truncated header sets the failure status only
\* in segment 0 and is a soft end in a later segment; an offset table overrun
\* sets the failure status in every segment, and no record of that segment is
\* emitted.
C6_TableOverrunAlwaysFatal ==
  (WalkLeft /\ StoppedAtChecks)
    => /\ (pc = "after_walk" /\ HeaderFails(stop.seg))
            => (exit_code = EXIT_FAILURE <=> stop.seg = 0)
       /\ TableOverruns(stop.seg)
            => exit_code = EXIT_FAILURE /\ handled = RecordsBefore(stop.seg)

C6_Witness ==
  /\ pc = "done"
  /\ StoppedAtChecks
  /\ TableOverruns(stop.seg)
  /\ stop.seg > 0
  /\ exit_code = EXIT_FAILURE
  /\ ~target_not_found

\* C7: for a record whose start address is inside the ROM the mode byte alone
\* selects the path: 0x00 the ADPCM decoder (the only path that can call the
\* WAV sink), 0x40 the raw sink only, any other byte a warning and no sink;
\* process_message returns true (continue) on each, and on no other record
\* does it take one of these paths.
C7_ModeSelectsPath ==
  /\ stop.reason # "error"
  /\ \A j \in 1..Len(outcomes) :
       LET o == outcomes[j]
       IN /\ o.ret = TRUE
          /\ (o.path = "oob") <=> (o.start >= rom_size)
          /\ o.start < rom_size =>
               /\ RomAt(o.start) = 0 => (o.path = "adpcm" /\ o.sink \in { "wav", "none" })
               /\ RomAt(o.start) = 64
                    => (o.path = "pcm" /\ o.sink \in { "raw", "none" }
                          /\ (o.sink = "none" => o.warn))
               /\ RomAt(o.start) \notin { 0, 64 }
                    => (o.path = "unknown" /\ o.warn /\ o.sink = "none")

C7_Witness ==
  /\ Len(outcomes) >= 2
  /\ outcomes[1].path = "unknown"
  /\ outcomes[2].path = "adpcm"
  /\ outcomes[2].sink = "wav"

\* C8: in decode mode with a target t >= 0, when the run is over and no
\* record with absolute index t was handled the exit status is failure; when
\* a record with absolute index t was handled the "target not found" error
\* was not raised.
C8_TargetNotFound ==
  (pc = "done" /\ ~list_mode /\ target_message_idx >= 0)
    => IF \E j \in 1..Len(handled) : handled[j].abs = target_message_idx
         THEN ~target_not_found /\ exit_code = EXIT_SUCCESS
         ELSE exit_code = EXIT_FAILURE

C8_Witness ==
  /\ pc = "done"
  /\ target_message_idx = 3
  /\ Len(handled) = 3
  /\ stop.reason = "end"
  /\ target_not_found
  /\ exit_code = EXIT_FAILURE

\* C9: in decode mode with a target t >= 0 only the record with absolute
\* index t is passed to process_message, it is passed when the walker reaches
\* it, and once it has been processed the walk is over with it as the last
\* record handled; with target -1 every record handled is passed.
C9_SelectorDecidesDispatch ==
  ~list_mode =>
    IF target_message_idx >= 0
      THEN /\ DispatchedAbs \subseteq { target_message_idx }
           /\ Len(outcomes) <= 1
           /\ \A j \in 1..Len(handled) :
                handled[j].abs = target_message_idx => handled[j].abs \in DispatchedAbs
           /\ Len(outcomes) = 1
                => (WalkLeft /\ handled[Len(handled)].abs = target_message_idx)
      ELSE /\ DispatchedAbs = { handled[j].abs : j \in 1..Len(handled) }
           /\ Len(outcomes) + (IF InDecode THEN 1 ELSE 0) = Len(handled)

C9_Witness ==
  /\ pc = "done"
  /\ target_message_idx = 1
  /\ Len(rom.segs) = 2
  /\ HeaderCount(0) = 2
  /\ rom_size > ROM_SEGMENT_SIZE + 8
  /\ Len(handled) = 2
  /\ Len(outcomes) = 1
  /\ outcomes[1].abs = 1

\* C10: a silence command c in 0x01..0x3F read in command state appends
\* exactly 8*c samples of value 0, leaves current_sample and the step index
\* unchanged, schedules no nibbles and leaves the decoder in command state.
C10_SilenceStep ==
  [][ (pc = "decode" /\ ~end_of_message /\ current_pos < rom_size
         /\ nibble_count = 0 /\ RomAt(current_pos) \in 1..63)
        => LET c == RomAt(current_pos)
           IN /\ Len(pcm_buffer') = Len(pcm_buffer) + 8 * c
              /\ \A j \in 1..Len(pcm_buffer') :
                   pcm_buffer'[j] = IF j <= Len(pcm_buffer) THEN pcm_buffer[j] ELSE 0
              /\ adpcm_state' = adpcm_state
              /\ nibble_count' = 0
              /\ pc' = "decode"
              /\ ~end_of_message' ]_vars

C10_Witness ==
  /\ pc = "decode"
  /\ lastCmd.op = 63
  /\ Len(pcm_buffer) = lastCmd.base + 504
  /\ lastCmd.base > 0
  /\ adpcm_state.adpcm_state > 0
  /\ adpcm_state.current_sample # 0
  /\ nibble_count = 0

\* C11: after every call of decode_nibble current_sample is in
\* -32768..32767 and the step index in 0..15, and the indices with which the
\* next data byte reads step_table and state_table (the step index before each
\* of its nibbles, and both nibbles) are in 0..15.
C11_DecoderStateInRange ==
  /\ adpcm_state.current_sample \in -32768..32767
  /\ adpcm_state.adpcm_state \in 0..15
  /\ (pc = "decode" /\ nibble_count > 0 /\ current_pos < rom_size)
       => LET data_byte == RomAt(current_pos)
              nibble1 == (data_byte \div 16) % 16
              nibble2 == data_byte % 16
              d1 == decode_nibble(nibble1, adpcm_state)
          IN /\ nibble1 \in 0..15
             /\ nibble2 \in 0..15
             /\ d1.state.current_sample \in -32768..32767
             /\ d1.state.adpcm_state \in 0..15

C11_Witness ==
  /\ pc = "decode"
  /\ nibble_count = 0
  /\ Len(pcm_buffer) = 2
  /\ RomAt(11) = 119
  /\ adpcm_state.current_sample = 32767
  /\ adpcm_state.adpcm_state = 15
  /\ pcm_buffer[2] = 32767

\* C12: after a short-block command (0x40..0x7F) the decoder emits 256
\* samples from the next 128 bytes, after a long-block command (0x80..0xBF)
\* with operand n it emits n+1 samples from the next ceil((n+1)/2) bytes: in
\* the block the samples emitted and the nibbles still due add up to the
\* block, the cursor is past ceil(emitted/2) data bytes, the block goes on
\* while its bytes are in the ROM, and when one nibble is due the data byte
\* gives one sample, that of its high nibble, and the decoder is in command
\* state at the next byte.
C12_BlockSamplesAndBytes ==
  /\ [](( pc = "decode" /\ lastCmd.op \in 64..191
           /\ (lastCmd.op >= 128 => lastCmd.n >= 0) )
        => LET total == IF lastCmd.op < 128 THEN 256 ELSE lastCmd.n + 1
               data_start == lastCmd.pos + (IF lastCmd.op < 128 THEN 1 ELSE 2)
               emitted == Len(pcm_buffer) - lastCmd.base
           IN /\ emitted + nibble_count = total
              /\ current_pos = data_start + (emitted + 1) \div 2
              /\ (nibble_count > 0 /\ data_start + (total + 1) \div 2 <= rom_size)
                   => LoopCond
              /\ nibble_count = 0
                   => /\ emitted = total
                      /\ current_pos = data_start + (total + 1) \div 2)
  /\ [][ ( pc = "decode" /\ LoopCond /\ lastCmd.op \in 64..191 /\ nibble_count = 1 )
          => /\ pcm_buffer' =
                  Append(pcm_buffer,
                         decode_nibble((RomAt(current_pos) \div 16) % 16,
                                       adpcm_state).pcm_sample)
             /\ current_pos' = current_pos + 1
             /\ nibble_count' = 0
             /\ pc' = "decode" ]_vars

C12_Witness ==
  /\ pc = "decode"
  /\ lastCmd.op = 128
  /\ lastCmd.n = 2
  /\ nibble_count = 0
  /\ Len(pcm_buffer) = lastCmd.base + 3
  /\ current_pos = lastCmd.pos + 4
  /\ RomAt(lastCmd.pos + 2) = 63
  /\ RomAt(lastCmd.pos + 3) = 33
  /\ pcm_buffer = << 256, -1024, -640 >>

\* C13: the command pair 0xC0,n (a repeat command with R = 0) and the pair
\* 0x80,n, read in the same decoder state and followed by the same bytes,
\* give the same samples, the same final (current_sample, step index) and the
\* same final read cursor: the two messages of a pair ROM, which differ in
\* that command byte only, end alike, and the step that reads the repeat
\* command sets what the long-block command sets.
C13_RepeatZeroIsLongBlock ==
  /\ []( (rom \in PairRoms /\ Len(outcomes) >= 2)
           => LET a == outcomes[1]
                  b == outcomes[2]
              IN /\ a.samples = b.samples
                 /\ a.state = b.state
                 /\ a.pos - a.start = b.pos - b.start
                 /\ a.ok = b.ok
                 /\ a.eom = b.eom
                 /\ a.sink = b.sink )
  /\ [][ ( pc = "decode" /\ LoopCond /\ nibble_count = 0
            /\ RomAt(current_pos) \in 192..255
            /\ (RomAt(current_pos) \div 8) % 8 = 0 )
          => IF current_pos + 1 >= rom_size
               THEN ~decoding_ok' /\ pc' = "decode_end"
                      /\ pcm_buffer' = pcm_buffer /\ adpcm_state' = adpcm_state
               ELSE /\ nibble_count' = RomAt(current_pos + 1) + 1
                    /\ repeat_count' = 0
                    /\ current_pos' = current_pos + 2
                    /\ pcm_buffer' = pcm_buffer
                    /\ adpcm_state' = adpcm_state
                    /\ decoding_ok' = decoding_ok
                    /\ end_of_message' = end_of_message
                    /\ pc' = "decode" ]_vars

C13_Witness ==
  /\ rom \in PairRoms
  /\ Len(outcomes) = 2
  /\ RomAt(outcomes[1].start + 4) = 192
  /\ RomAt(outcomes[1].start + 5) = 3
  /\ RomAt(outcomes[1].start + 6) = 127
  /\ RomAt(outcomes[2].start + 4) = 128
  /\ Len(outcomes[1].samples) = 14
  /\ outcomes[1].samples[6] # 0
  /\ outcomes[1].state.adpcm_state > 0
  /\ outcomes[1].eom

\* The key of a mapping entry.
KeyOf(entry) == << entry.segment_index, entry.message_index_in_seg >>

\* The keys add_mapping was called with so far.
AddedKeys == { KeyOf(added[j]) : j \in 1..Len(added) }

\* C14: after any sequence of add_mapping calls the table holds at most one
\* entry per key (segment_index, message_index_in_seg), its count is the
\* number of distinct keys inserted, and find_mapping returns for a key the
\* filename base and comment of the last insertion with that key, and NULL
\* for a key never inserted.
C14_LastWriteWins ==
  pc # "done" =>
    /\ \A i, j \in 1..Len(mapping_table) :
         i # j => KeyOf(mapping_table[i]) # KeyOf(mapping_table[j])
    /\ Len(mapping_table) = Cardinality(AddedKeys)
    /\ \A seg \in 0..2, idx \in 0..2 :
         LET found == find_mapping(mapping_table, seg, idx)
             calls == { j \in 1..Len(added) : KeyOf(added[j]) = << seg, idx >> }
         IN IF calls = {}
              THEN found = 0
              ELSE /\ found # 0
                   /\ mapping_table[found] = added[MaxOf(calls)]

C14_Witness ==
  /\ pc = "seg_loop"
  /\ Len(added) = MaxMapLines
  /\ Len(mapping_table) = 1
  /\ added[1].output_filename_base = << "a" >>
  /\ added[1].comment = NULL
  /\ mapping_table[find_mapping(mapping_table, 0, 0)].output_filename_base = << "b" >>
  /\ mapping_table[find_mapping(mapping_table, 0, 0)].comment = << "h", "i" >>

\* A string of one or more decimal digits.
IsDecimal(str) == str # <<>> /\ \A j \in 1..Len(str) : isdigit(str[j])

\* The fields of a line: the strings between its tabs, after the leading
\* white space of the line.
RECURSIVE Fields(_)
Fields(str) ==
  LET tab == strchr(str, 1, "\t")
  IN IF tab = 0 THEN << str >>
     ELSE << SubSeq(str, 1, tab - 1) >> \o Fields(StrFrom(str, tab + 1))

\* A data line (not blank and not a comment line) that has fewer than two
\* tabs or whose segment or message index is not a non-negative decimal
\* integer.
MalformedLine(line) ==
  LET text == StrFrom(line, SkipSpaces(line, 1))
  IN /\ text # <<>>
     /\ text[1] # "#"
     /\ \/ Len(Fields(text)) < 3
        \/ ~IsDecimal(Fields(text)[1])
        \/ ~IsDecimal(Fields(text)[2])

\* C15: once load_mappings has read a malformed data line the load has
\* failed: the table is empty, the run is over with a failure exit status and
\* no ROM segment was processed.
C15_MalformedLineFails ==
  (\E j \in 1..line_num : MalformedLine(map_file.lines[j]))
    => /\ pc = "done"
       /\ exit_code = EXIT_FAILURE
       /\ mapping_table = <<>>
       /\ stop.reason = "map"
       /\ handled = <<>>

\* A call of process_message that met a per-message error: a start address
\* outside the ROM, an unknown mode byte, a failed decode, a sink that failed.
MessageError(o) ==
  \/ o.path \in { "oob", "unknown" }
  \/ ~o.ok
  \/ (o.sink # "none" /\ ~o.written)

\* C16: a per-message error never stops the walk and alone never changes the
\* exit status: process_message returns true, the step that reports the
\* error leaves the exit status as it was, the walk is not left in that
\* segment for the error (in the decode of all messages it is not left there
\* at all, and the next record of the segment is handled next), and a failure
\* status comes from a container check, the map load or the missing target.
C16_MessageErrorsDoNotStop ==
  /\ [][ (outcomes' # outcomes /\ MessageError(outcomes'[Len(outcomes')]))
          => /\ exit_code' = exit_code
             /\ stop'.reason # "error"
             /\ target_message_idx < 0
                  => (pc' = "msg_loop" /\ msg_idx_in_seg' = msg_idx_in_seg + 1) ]_vars
  /\ []( \A j \in 1..Len(outcomes) :
           MessageError(outcomes[j])
             => /\ outcomes[j].ret = TRUE
                /\ stop.reason # "error"
                /\ exit_code = EXIT_FAILURE
                     => ( stop.reason \in { "header_short", "bad_magic", "table", "map" }
                            \/ target_not_found )
                /\ target_message_idx < 0
                     => /\ stop.seg # outcomes[j].seg
                        /\ outcomes[j].idx + 1 < HeaderCount(outcomes[j].seg)
                             => \/ \E h \in 1..Len(handled) :
                                     /\ handled[h].seg = outcomes[j].seg
                                     /\ handled[h].idx = outcomes[j].idx + 1
                                \/ /\ pc = "msg_loop"
                                   /\ segment_index_0_based = outcomes[j].seg
                                   /\ msg_idx_in_seg = outcomes[j].idx + 1 )

C16_Witness ==
  /\ pc = "done"
  /\ exit_code = EXIT_SUCCESS
  /\ Len(outcomes) = 4
  /\ outcomes[1].sink = "raw"
  /\ ~outcomes[1].written
  /\ outcomes[3].path = "unknown"
  /\ outcomes[4].path = "oob"
  /\ stop.reason = "end"

TableEntry(i, k) == read_u16be(i * ROM_SEGMENT_SIZE + 5 + 2 * k)

\* C18: for a message with mode byte 0x40 at start address a the raw sink
\* gets the ROM bytes [a, e), where e is the smaller of the ROM size N and
\* segment_start + 2*table[k+1], or segment_start + 131072 for the last
\* message of the segment: the range starts at the mode byte and does not
\* pass the end of the ROM; when e <= a the raw sink is not called and a
\* warning is reported.
C18_RawRange ==
  \A j \in 1..Len(outcomes) :
    LET o == outcomes[j]
        first == o.seg * ROM_SEGMENT_SIZE
        a == first + 2 * TableEntry(o.seg, o.idx)
        next == IF o.idx + 1 < HeaderCount(o.seg)
                  THEN first + 2 * TableEntry(o.seg, o.idx + 1)
                  ELSE first + 131072
        e == IF rom_size < next THEN rom_size ELSE next
    IN o.path = "pcm"
         => /\ o.start = a
            /\ RomAt(a) = 64
            /\ IF e <= a
                 THEN o.sink = "none" /\ o.warn /\ o.raw = <<>>
                 ELSE o.sink = "raw" /\ o.raw = << a, e >> /\ e <= rom_size

C18_Witness ==
  /\ Len(outcomes) >= 2
  /\ outcomes[1].sink = "raw"
  /\ outcomes[1].idx + 1 < HeaderCount(outcomes[1].seg)
  /\ outcomes[1].raw = << 10, 12 >>
  /\ outcomes[Len(outcomes)].sink = "raw"
  /\ outcomes[Len(outcomes)].idx + 1 = HeaderCount(outcomes[Len(outcomes)].seg)
  /\ outcomes[Len(outcomes)].raw[2] = rom_size
  /\ rom_size % ROM_SEGMENT_SIZE # 0

\* The comment the mapping file gives the key (seg, idx): that of its last
\* data line for the key, NULL without one.
MapComment(seg, idx) ==
  LET calls == { j \in 1..Len(added) : KeyOf(added[j]) = << seg, idx >> }
  IN IF calls = {} THEN NULL ELSE added[MaxOf(calls)].comment

\* The mode byte of message idx of segment seg is in the ROM and is 0x40.
ModeIsPCM(seg, idx) ==
  LET a == seg * ROM_SEGMENT_SIZE + 2 * TableEntry(seg, idx)
  IN a < rom_size /\ RomAt(a) = 64

\* C19: the comment field of every listing line is '#', then ' (PCM)' if and
\* only if the mode byte is 0x40 and the map comment (if any) does not
\* contain '(PCM)', then, only if there is a non-empty map comment, a space
\* and the map comment; every record listed gets its line.
C19_ListCommentField ==
  /\ pc # "killed"
  /\ \A j \in 1..Len(listing) :
       LET l == listing[j]
           c == MapComment(l.seg, l.idx)
           tag == ModeIsPCM(l.seg, l.idx)
                    /\ ~(c # NULL /\ strstr(c, << "(", "P", "C", "M", ")" >>))
       IN l.comment = << "#" >>
                        \o (IF tag THEN << " ", "(", "P", "C", "M", ")" >> ELSE <<>>)
                        \o (IF c # NULL /\ c # <<>> THEN << " " >> \o c ELSE <<>>)

\* The decoder state after the nibbles the decoder decodes of the byte at
\* current_pos: both, or the high one alone when one nibble is left.
AfterDataByte ==
  LET b == RomAt(current_pos)
      s1 == decode_nibble((b \div 16) % 16, adpcm_state).state
  IN IF nibble_count > 1 THEN decode_nibble(b % 16, s1).state ELSE s1

\* C20: while a message is decoded, a step that decodes a data byte leaves
\* the state its last nibble produced, also when it rewinds to replay a
\* repeat block, and a step that reads a command leaves the state alone; the
\* state is (0, 0) when the decoding of a message starts.
C20_StateKeptAcrossReplays ==
  [][ /\ (pc = "decode" /\ pc' = "decode" /\ nibble_count > 0)
        => adpcm_state' = AfterDataByte
      /\ (pc = "decode" /\ pc' = "decode" /\ nibble_count = 0)
        => adpcm_state' = adpcm_state
      /\ (pc # "decode" /\ pc' = "decode")
        => /\ adpcm_state' = [ current_sample |-> 0, adpcm_state |-> 0 ]
           /\ pcm_buffer' = <<>>
           /\ current_pos' = StartAddress(msg_idx_in_seg) + 1 ]_vars

\* The block 0xD0 0x03 0x12 0x34 was played once and the decoder is back at
\* its first data byte for the second play, with the state of the first.
C20_Witness ==
  /\ pc = "decode"
  /\ lastCmd.op = 208
  /\ plays = 1
  /\ repeat_count > 0
  /\ current_pos = current_repeat_nibble_start
  /\ nibble_count = current_repeat_nibble_count
  /\ Len(pcm_buffer) = 4
  /\ adpcm_state # [ current_sample |-> 0, adpcm_state |-> 0 ]

\* v limited to the range of int16_t.
ClampInt16(v) == IF v > 32767 THEN 32767 ELSE IF v < -32768 THEN -32768 ELSE v

\* C21: the sample decode_nibble appends is the updated current_sample times
\* 128, computed without wrap-around and limited to -32768..32767, whatever
\* the sign of the step difference.
C21_SampleIsClampedShift ==
  (pc = "decode" /\ nibble_count > 0 /\ current_pos < rom_size)
    => LET data_byte == RomAt(current_pos)
           d1 == decode_nibble((data_byte \div 16) % 16, adpcm_state)
           d2 == decode_nibble(data_byte % 16, d1.state)
       IN /\ d1.pcm_sample = ClampInt16(d1.state.current_sample * 128)
          /\ nibble_count > 1
               => d2.pcm_sample = ClampInt16(d2.state.current_sample * 128)

\* The byte range [low, high) of message idx of segment seg: from its start
\* address to the start of the next message, or to the end of the segment
\* for the last message, and not past the end of the ROM.
MessageLow(seg, idx) == seg * ROM_SEGMENT_SIZE + 2 * TableEntry(seg, idx)

MessageHigh(seg, idx) ==
  LET next == IF idx + 1 < HeaderCount(seg)
                THEN seg * ROM_SEGMENT_SIZE + 2 * TableEntry(seg, idx + 1)
                ELSE seg * ROM_SEGMENT_SIZE + ROM_SEGMENT_SIZE
  IN IF rom_size < next THEN rom_size ELSE next

\* C22: the command, operand and data bytes the decoder reads for an ADPCM
\* message are at ROM positions of [low + 1, high), high being the start of
\* the next message or the segment boundary, limited to the ROM size.
C22_DecoderStaysInMessage ==
  \A r \in reads :
    r.by \in { "command", "data" }
      => /\ MessageLow(r.seg, r.idx) + 1 <= r.lo
         /\ r.hi <= MessageHigh(r.seg, r.idx)

\* The message at byte 8 has the payload C8 01 11 00, the decoder has read
\* the repeat command and emitted `emitted` samples.
RepeatExample(emitted) ==
  /\ pc = "decode"
  /\ StartAddress(msg_idx_in_seg) = 8
  /\ << RomAt(9), RomAt(10), RomAt(11), RomAt(12) >> = << 200, 1, 17, 0 >>
  /\ 12 < rom_size
  /\ lastCmd.op = 200
  /\ lastCmd.pos = 9
  /\ Len(pcm_buffer) = emitted

\* C23 as stated: after the first play of the block of the payload
\* C8 01 11 00 step_index is nonzero.
C23_StepIndexNonzeroAfterFirstPlay ==
  RepeatExample(2) => adpcm_state.adpcm_state # 0

\* C23: decoding the payload C8 01 11 00 from (0, 0), the first play of the
\* block takes the byte 0x11 as the nibbles 1 then 1 and produces two
\* samples; both samples are 0 and the state after the first play is (0, 0)
\* again, step_index included (step_table[0][1] = 0, state_table[1] = -1).
C23_FirstPlayOfRepeatExample ==
  /\ RepeatExample(0)
       => /\ current_pos = 11
          /\ nibble_count = 2
          /\ adpcm_state = [ current_sample |-> 0, adpcm_state |-> 0 ]
          /\ (RomAt(11) \div 16) % 16 = 1
          /\ RomAt(11) % 16 = 1
  /\ RepeatExample(2)
       => /\ pcm_buffer = << 0, 0 >>
          /\ pcm_buffer[1] = decode_nibble(1, [ current_sample |-> 0,
                                                 adpcm_state |-> 0 ]).pcm_sample
          /\ adpcm_state = [ current_sample |-> 0, adpcm_state |-> 0 ]
          /\ [ by |-> "data", seg |-> 0, idx |-> 0, lo |-> 11, hi |-> 12 ] \in reads

C23_Witness == RepeatExample(2) /\ plays = 1

\* The increments of the step index, by nibble.
IndexDelta == << -1, -1, 0, 0, 1, 2, 2, 3, -1, -1, 0, 0, 1, 2, 2, 3 >>

\* The state after nibble v in the state st.
NibbleUpdate(v, st) ==
  LET s == st.current_sample + step_table[st.adpcm_state + 1][v + 1]
      i == st.adpcm_state + IndexDelta[v + 1]
  IN [ current_sample |-> ClampInt16(s),
       adpcm_state |-> IF i < 0 THEN 0 ELSE IF i > 15 THEN 15 ELSE i ]

\* C24: a step that decodes a data byte takes its high nibble first and
\* then, unless one nibble only is due, its low nibble, and each nibble v
\* takes the state from (s, i) to (clamp(s + step_table[i][v]),
\* clamp(i + delta[v], 0, 15)); after a short block of 128 zero bytes
\* decoded from (0, 0) the buffer holds 256 zero samples and the step index
\* is 0.
C24_NibbleUpdate ==
  /\ [][ (pc = "decode" /\ pc' = "decode" /\ nibble_count > 0)
          => LET b == RomAt(current_pos)
                 hi == NibbleUpdate((b \div 16) % 16, adpcm_state)
             IN IF nibble_count > 1
                  THEN /\ adpcm_state' = NibbleUpdate(b % 16, hi)
                       /\ Len(pcm_buffer') = Len(pcm_buffer) + 2
                  ELSE /\ adpcm_state' = hi
                       /\ Len(pcm_buffer') = Len(pcm_buffer) + 1 ]_vars
  /\ []( ( pc = "decode" /\ lastCmd.op \in 64..127 /\ lastCmd.base = 0
            /\ plays = 1
            /\ \A a \in (lastCmd.pos + 1)..(lastCmd.pos + 128) : RomAt(a) = 0 )
          => /\ pcm_buffer = [ j \in 1..256 |-> 0 ]
             /\ adpcm_state = [ current_sample |-> 0, adpcm_state |-> 0 ] )

\* The short block of 128 zero bytes at the start of a message is done.
C24_Witness ==
  /\ pc = "decode"
  /\ lastCmd.op = 64
  /\ lastCmd.base = 0
  /\ plays = 1
  /\ current_pos = lastCmd.pos + 129
  /\ Len(pcm_buffer) = 256
  /\ RomAt(lastCmd.pos + 1) = 0

\* C25: every segment a record was emitted from has 5 + 2*M <= 131072 and
\* 5 + 2*M <= N - segment_start, M being its last_msg_index + 1; when the
\* walker comes to a segment with a valid header that fails this validation
\* it emits no record of that segment nor of a later one and the exit status
\* is failure, also when the run is over.
C25_OffsetTableValidated ==
  /\ \A j \in 1..Len(handled) :
       LET i == handled[j].seg
           M == HeaderCount(i)
       IN /\ 5 + 2 * M <= 131072
          /\ 5 + 2 * M <= rom_size - i * ROM_SEGMENT_SIZE
  /\ (WalkLeft /\ StoppedAtChecks /\ ~HeaderFails(stop.seg)
        /\ stop.seg * ROM_SEGMENT_SIZE < rom_size
        /\ 5 + 2 * HeaderCount(stop.seg) > rom_size - stop.seg * ROM_SEGMENT_SIZE)
       => /\ stop.reason = "table"
          /\ \A j \in 1..Len(handled) : handled[j].seg < stop.seg
          /\ handled = RecordsBefore(stop.seg)
          /\ exit_code = EXIT_FAILURE

\* The run is over; the second segment failed the validation after the
\* records of the first were emitted.
C25_Witness ==
  /\ pc = "done"
  /\ stop.reason = "table"
  /\ stop.seg = 1
  /\ Len(handled) > 0
  /\ 5 + 2 * HeaderCount(1) > rom_size - ROM_SEGMENT_SIZE
  /\ exit_code = EXIT_FAILURE

\* C26: a dispatched record whose start address segment_start + 2*table[k]
\* is at or past the end of the ROM takes the out-of-bounds path: no byte of
\* the ROM is read for it, no sink is called, a warning is reported and
\* process_message returns true, so that the walk goes on; no other record
\* takes that path.
C26_StartOutOfBoundsSkipped ==
  \A j \in 1..Len(outcomes) :
    LET o == outcomes[j]
    IN /\ o.start = MessageLow(o.seg, o.idx)
       /\ o.start >= rom_size
            => /\ o.path = "oob"
               /\ o.sink = "none"
               /\ ~o.written
               /\ o.warn
               /\ o.ret
               /\ \A r \in reads : ~(r.seg = o.seg /\ r.idx = o.idx)
               /\ (pc = "done" /\ o.abs # target_message_idx)
                    => stop.reason # "error"
       /\ o.path = "oob" => o.start >= rom_size

\* A record that starts exactly at the end of the ROM was skipped and the
\* record after it was processed.
C26_Witness ==
  /\ Len(outcomes) >= 2
  /\ \E j \in 1..(Len(outcomes) - 1) :
       /\ outcomes[j].path = "oob"
       /\ outcomes[j].start = rom_size
       /\ outcomes[j + 1].path # "oob"

\* C27: write_wav_file fails, and writes no RIFF header, whenever twice the
\* true sample count is above 2^32 - 1; the data size of a file it reports
\* as written is twice the true sample count.
C27_DataSizeOverflowDetected ==
  (pc = "wav_done" /\ wav.called)
    => /\ WideGreater(WideAdd(wav.count, wav.count), UINT32_MAX)
            => ~wav.success /\ ~wav.header_written
       /\ wav.success => wav.data_chunk_size = WideAdd(wav.count, wav.count)

\* C30: after a successful write_wav_file the size in the RIFF header is the
\* number of bytes written after that field, and the size in the LIST header
\* is the number of bytes of the INFO type id and of the INFO sub-chunks
\* written, ICMT among them exactly when it is written.
C30_HeaderSizesMatchBytes ==
  (wav.called /\ wav.success)
    => /\ wav.riff_chunk_size = wav.riff_bytes
       /\ wav.info_chunk_data_size = wav.info_bytes

\* C28: the decoding loop terminates.  A step of the loop that stays in the
\* loop has read the byte at the cursor and moves the cursor forward, or it
\* has read the last data byte of a play of a repeat block and moves the
\* cursor back to the start of the block, using up one repeat; a repeat
\* command has at most 7 plays completed, hence at most 7 moves back; and
\* the loop, once entered, is left.
C28_DecodeLoopTerminates ==
  /\ [][ (pc = "decode" /\ pc' = "decode")
          => /\ \E r \in reads' : r.lo = current_pos /\ r.hi > current_pos
                                   /\ r.seg = segment_index_0_based
                                   /\ r.idx = msg_idx_in_seg
             /\ \/ current_pos' > current_pos
                \/ /\ lastCmd.op \in 192..255
                   /\ nibble_count \in 1..2
                   /\ current_pos' = current_repeat_nibble_start
                   /\ nibble_count' = current_repeat_nibble_count
                   /\ repeat_count' = repeat_count - 1
                   /\ repeat_count' > 0
                   /\ plays' = plays + 1 ]_vars
  /\ [](InDecode => /\ repeat_count \in 0..7
                    /\ plays <= 7
                    /\ lastCmd.op \notin 192..255 => plays <= 1 /\ repeat_count = 0)
  /\ (pc = "decode") ~> (pc # "decode")

\* The block of the repeat command 0xF8 (R = 7) has been played for the
\* last time and the decoder is back in command state.
C28_Witness ==
  /\ pc = "decode"
  /\ lastCmd.op = 248
  /\ plays = 7
  /\ repeat_count = 0
  /\ nibble_count = 0
  /\ current_pos > lastCmd.pos + 2

\* C29: every range of rom_data read, by main for the header and the offset
\* table, for the mode byte in process_message and in list mode, for the
\* raw sink, and by the decoder for command, operand and data bytes, also
\* after a rewind, is not empty and ends at or before rom_size: every index
\* read is below N.
C29_ReadsBelowRomSize ==
  \A r \in reads : 0 <= r.lo /\ r.lo < r.hi /\ r.hi <= rom_size

\* The run is over; the header and a mode byte were read, the decoder read
\* the last byte of the ROM as a data byte and read a data byte again
\* after a rewind.
C29_Witness ==
  /\ pc = "done"
  /\ \E r \in reads : r.by = "header" /\ r.hi > r.lo + 5
  /\ \E r \in reads : r.by = "mode"
  /\ \E r \in reads : r.by = "data" /\ r.hi = rom_size
  /\ \E j \in 1..Len(outcomes) :
       /\ outcomes[j].path = "adpcm"
       /\ RomAt(outcomes[j].start + 1) \in 192..255
       /\ Len(outcomes[j].samples) > RomAt(outcomes[j].start + 2) + 1

====
